---------------------------- MODULE Spec2Model ----------------------------
(***************************************************************************)
(* A model of pyfwup's protocol engines: the DFU block-write state machine *)
(* (fwup/dfu.py), its LPC43xx framing (fwup/lpc43xx.py), the Micronucleus  *)
(* info read, jump patch, reconnect, erase and page programming           *)
(* (fwup/micronucleus.py) and the Cypress FX3 image decoder and streamer   *)
(* (fwup/fx3.py).                                                          *)
(*                                                                         *)
(* The program is single-threaded: pc is the position of the one caller.   *)
(* The USB device is the environment: every control transfer either        *)
(* returns what the device chooses or fails with a USBError.               *)
(***************************************************************************)
EXTENDS Integers, Sequences, FiniteSets, TLC

VARIABLES
    engine,             \* which engine this run drives: "dfu", "connect", "mn", "fx3", "fn"
    pc,                 \* position of the caller inside the running operation
    exc,                \* the exception that ended the last operation, if any
    wire,               \* control-transfer OUT requests issued so far by the current call
    progress,           \* the (done, total) pairs handed to the progress callback
    image,              \* the caller's image (program_data as passed to program())
    callback,           \* whether the caller passed a callable status_callback
    \* ---- DFUTarget / LPC43xxTarget
    target,             \* the class of the target object: "dfu" or "lpc43xx"
    transfer_size,      \* self.transfer_size
    program_data,       \* the byte stream DFUTarget.program() iterates over
    page_address,       \* loop variable of DFUTarget.program()
    last_block_number,  \* self.last_block_number: <<>> while the attribute is not set
    in_finalize,        \* inside __send_download_complete
    status,             \* last bStatus read by __get_status
    state,              \* last bState read by __get_status
    poll_timeout,       \* last bwPollTimeout read by __get_status
    calls,              \* number of program() calls made on this target
    nonzeroSeen,        \* history: first nonzero bStatus read during the current call (0: none)
    faulted,            \* history: a transfer failed or a status read was not (0, DownloadIdle)
    \* ---- DFUTarget.__init__ (connect and the detach handshake)
    detach,             \* the detach argument of the constructor
    timeout,            \* the timeout argument of the constructor, in ms
    runtime_mode,       \* self.runtime_mode
    attributes,         \* self.attributes (bmAttributes of the functional descriptor)
    clock,              \* time.time(), in ms
    start,              \* start, in ms
    probes,             \* number of reconnect attempts made since the DETACH request
    \* ---- FX3Target
    chunks,             \* the OrderedDict program_chunks, as a sequence of [address, data]
    chunk_index,        \* position of the for loop over chunks_to_program.items()
    to_upload,          \* to_upload of _upload_firmware
    address,            \* address of _upload_firmware
    last_address,       \* self.last_address: <<>> while the attribute is not set
    size_written,       \* size_written of program()
    total_size,         \* total_size of program()
    size_result,        \* the value size_to_program() returned: <<>> before it has
    \* ---- MicronucleusBoard
    info,               \* the attributes _populate_info_from_device set on the board
    device,             \* self.device: <<>> while it is None
    wait,               \* the wait argument of the running _try_connect
    requires_reconnect, \* requires_reconnect of erase()
    sleeps,             \* the time.sleep() calls of the current call: <<num, den>> ms each
    find_parity,        \* history: parity of the usb.core.find calls of the current call
    op,                 \* the method the caller called: "reconnect", "erase" or "program"
    bus,                \* environment: what usb.core.find would return now
    reset_address,      \* reset_address of program()
    flash_page_address, \* page_address of MicronucleusBoard.program()
    raw_pages,          \* history: the (address, data) arguments of __raw_write_page
    \* ---- pure functions applied to drawn inputs
    fn,                 \* the function applied
    arg,                \* its input; in an FX3 run, what the image was built from
    res                 \* its result: <<>> until it has been applied

commonVars  == <<engine, pc, exc, wire, progress, image, callback>>
dfuVars     == <<target, transfer_size, program_data, page_address, last_block_number,
                 in_finalize, status, state, poll_timeout, calls, nonzeroSeen, faulted>>
connectVars == <<detach, timeout, runtime_mode, attributes, clock, start, probes>>
fx3Vars     == <<chunks, chunk_index, to_upload, address, last_address, size_written,
                 total_size, size_result>>
mnVars      == <<info, device, wait, requires_reconnect, sleeps, find_parity, op, bus,
                 reset_address, flash_page_address, raw_pages>>
fnVars      == <<fn, arg, res>>
vars        == <<commonVars, dfuVars, connectVars, fx3Vars, mnVars, fnVars>>

-----------------------------------------------------------------------------
(* Bounds of the model *)

MaxImageLen == 4
MaxTransferSize == 2
MaxLpcExtra == 2
MaxStatus == 2
MaxCalls == 2
MaxTimeoutSteps == 3
TimeStep == 50
MaxHeaderLen == 1100
MaxFlash == 40
MaxPage == 9
MaxInstrAddr == 9
MaxTarget == 20
MaxChunks == 2
MaxChunkWords == 1
MaxCut == 4
MaxRjmpOffset == 8
MaxMnImageWords == 5

-----------------------------------------------------------------------------
(* Values shared by the engines *)

None == <<>>
Some(x) == <<x>>
NoExc == [type |-> "none", code |-> 0]
Raise(t) == [type |-> t, code |-> 0]

Byte == 0..255

\* The bytes of a caller-supplied image of the given length: a fixed pattern per seed.
ImageOf(len, seed) == [i \in 1..len |-> (seed + 37 * i) % 256]

\* data[from:to] of Python, 0-based, for 0 <= from: clipped to the sequence.
Slice(s, from, to) ==
    LET hi == IF to < Len(s) THEN to ELSE Len(s)
    IN  IF from >= hi THEN <<>> ELSE SubSeq(s, from + 1, hi)

RECURSIVE Pow2(_)
Pow2(n) == IF n = 0 THEN 1 ELSE 2 * Pow2(n - 1)

\* x & m and x | m of Python on a 16-bit mask m >= 0; x may be negative (two's complement).
RECURSIVE BitsAnd(_, _, _)
BitsAnd(x, m, n) ==
    IF n = 0 THEN 0
    ELSE (IF x % 2 = 1 /\ m % 2 = 1 THEN 1 ELSE 0) + 2 * BitsAnd(x \div 2, m \div 2, n - 1)

BitAnd(x, m) == BitsAnd(x % Pow2(16), m, 16)

RECURSIVE BitsOr(_, _, _)
BitsOr(x, m, n) ==
    IF n = 0 THEN 0
    ELSE (IF x % 2 = 1 \/ m % 2 = 1 THEN 1 ELSE 0) + 2 * BitsOr(x \div 2, m \div 2, n - 1)

BitOr(x, m) == BitsOr(x, m, 16)

\* int(x / y) of Python for y > 0: true division, then truncation towards zero.
IntDiv(x, y) == IF x >= 0 THEN x \div y ELSE -((-x) \div y)


-----------------------------------------------------------------------------
(* DFUTarget and LPC43xxTarget: program() and run_user_program() *)

DFU_DOWNLOAD == 1
DFU_STATE_DFU_DOWNLOAD_IDLE == 5
DFU_STATE_DFU_ERROR == 10
\* bState values a device can answer with: DFU_STATE_APP_IDLE .. DFU_STATE_DFU_ERROR.
DfuStates == 0..DFU_STATE_DFU_ERROR
\* bwPollTimeout values a device can answer with, in ms.
PollTimeouts == {0, 10}

BLOCK_SIZE == 512
HEADER_SIZE == 16

DFUError(code) == [type |-> "DFUError", code |-> code]

\* A slip that numbers a block by its byte address.
BlockNumberOf_Address(addr, size) == addr

\* block_number = address // self.transfer_size
BlockNumberOf(addr, size) == addr \div size

\* A slip that sends the empty block under the number of the last data block.
FinalBlockNumber_Repeated(last) == last

\* block_number=self.last_block_number + 1
FinalBlockNumber(last) == last + 1

\* A slip that lets the empty block's transport errors propagate.
TransportErrorSwallowed_Never(finalizing) == FALSE

\* except usb.core.USBError: pass around the block write of __send_download_complete
TransportErrorSwallowed(finalizing) == finalizing

\* state in (DFU_STATE_DFU_ERROR, DFU_STATE_DFU_DOWNLOAD_IDLE)
CommandFinished(st) == st \in {DFU_STATE_DFU_ERROR, DFU_STATE_DFU_DOWNLOAD_IDLE}

\* A slip that compares the status code against a state constant.
CommandFailed_StateConstant(code) == code = DFU_STATE_DFU_ERROR

\* if status: raise DFUError(status)
CommandFailed(code) == code # 0

\* program_size_blocks of LPC43xxTarget.program()
ProgramSizeBlocks(len) == (len + (BLOCK_SIZE - HEADER_SIZE - 1)) \div 512

\* A slip that packs the 16-bit field big-endian (">BBH").
PackBBH_BigEndian(a, b, h) == <<a, b, (h \div 256) % 256, h % 256>>

\* struct.pack("<BBH", a, b, h)
PackBBH(a, b, h) == <<a, b, h % 256, (h \div 256) % 256>>

\* header = struct.pack("<BBH", 0xda, 0xff, program_size_blocks) + (b"\xff" * 12)
LpcHeader(len) == PackBBH(218, 255, ProgramSizeBlocks(len)) \o [i \in 1..12 |-> 255]

\* program_data[0:0] = header
LpcProgramData(img) == LpcHeader(Len(img)) \o img

\* The byte stream DFUTarget.program() receives from the target's own program().
DfuProgramData(cls, img) == IF cls = "lpc43xx" THEN LpcProgramData(img) ELSE img

\* [request, value, data] of one DFU OUT request; ok: whether ctrl_transfer returned.
DfuOut(request, value, data, ok) ==
    [request |-> request, value |-> value, data |-> data, ok |-> ok]

\* Image lengths a caller passes: short ones, and for the LPC43xx, whose header counts
\* 512-byte blocks, also lengths around the first length that gives a nonzero count.
ImageLens(cls) ==
    IF cls = "lpc43xx"
    THEN (0..MaxLpcExtra) \cup (HEADER_SIZE..(HEADER_SIZE + 1 + MaxLpcExtra))
    ELSE 0..MaxImageLen

\* transfer_size values a device's functional descriptor reports.
TransferSizes(cls) ==
    IF cls = "lpc43xx"
    THEN {HEADER_SIZE * k : k \in 1..MaxTransferSize}
    ELSE 1..MaxTransferSize

IdleDfu ==
    /\ target = "dfu"
    /\ transfer_size = 1
    /\ program_data = <<>>
    /\ page_address = 0
    /\ last_block_number = None
    /\ in_finalize = FALSE
    /\ status = 0
    /\ state = 0
    /\ poll_timeout = 0
    /\ calls = 0
    /\ nonzeroSeen = 0
    /\ faulted = FALSE

\* program(program_data, status_callback): entry, up to the first loop test.
DfuProgram ==
    /\ engine = "dfu"
    /\ pc \in {"idle", "done", "raised", "ran"}
    /\ calls < MaxCalls
    /\ \E len \in ImageLens(target), cb \in BOOLEAN :
          /\ image' = ImageOf(len, 1)
          /\ callback' = cb
    /\ program_data' = DfuProgramData(target, image')
    /\ page_address' = 0
    /\ pc' = IF 0 < Len(program_data') THEN "write" ELSE "finalize"
    /\ calls' = calls + 1
    /\ wire' = <<>>
    /\ progress' = <<>>
    /\ exc' = NoExc
    /\ in_finalize' = FALSE
    /\ nonzeroSeen' = 0
    /\ faulted' = FALSE
    /\ status' = 0
    /\ state' = 0
    /\ poll_timeout' = 0
    /\ UNCHANGED <<engine, target, transfer_size, last_block_number>>
    /\ UNCHANGED <<connectVars, fx3Vars, fnVars, mnVars>>

\* __raw_write_page(page_address, data_to_program) up to the DOWNLOAD request.
DfuWritePage ==
    /\ engine = "dfu"
    /\ pc = "write"
    /\ LET data  == Slice(program_data, page_address, page_address + transfer_size)
           block == BlockNumberOf(page_address, transfer_size)
       IN  /\ last_block_number' = Some(block)
           /\ \E ok \in BOOLEAN :
                 /\ wire' = Append(wire, DfuOut(DFU_DOWNLOAD, block, data, ok))
                 /\ IF ok
                    THEN /\ pc' = "poll"
                         /\ UNCHANGED <<exc, faulted>>
                    ELSE /\ pc' = "raised"
                         /\ exc' = Raise("USBError")
                         /\ faulted' = TRUE
    /\ UNCHANGED <<engine, progress, image, callback>>
    /\ UNCHANGED <<target, transfer_size, program_data, page_address, in_finalize, status,
                   state, poll_timeout, calls, nonzeroSeen>>
    /\ UNCHANGED <<connectVars, fx3Vars, fnVars, mnVars>>

\* __send_download_complete up to the DOWNLOAD request of the empty block.
DfuSendDownloadComplete ==
    /\ engine = "dfu"
    /\ pc = "finalize"
    /\ IF last_block_number = None
       THEN \* self.last_block_number + 1 reads an attribute no block write has set
            /\ pc' = "raised"
            /\ exc' = Raise("AttributeError")
            /\ UNCHANGED <<wire, last_block_number, in_finalize, faulted>>
       ELSE LET block == FinalBlockNumber(last_block_number[1])
            IN  /\ last_block_number' = Some(block)
                /\ \E ok \in BOOLEAN :
                      /\ wire' = Append(wire, DfuOut(DFU_DOWNLOAD, block, <<>>, ok))
                      /\ IF ok
                         THEN /\ pc' = "poll"
                              /\ in_finalize' = TRUE
                              /\ UNCHANGED <<exc, faulted>>
                         ELSE /\ in_finalize' = FALSE
                              /\ faulted' = TRUE
                              /\ IF TransportErrorSwallowed(TRUE)
                                 THEN pc' = "final_callback" /\ UNCHANGED exc
                                 ELSE pc' = "raised" /\ exc' = Raise("USBError")
    /\ UNCHANGED <<engine, progress, image, callback>>
    /\ UNCHANGED <<target, transfer_size, program_data, page_address, status, state,
                   poll_timeout, calls, nonzeroSeen>>
    /\ UNCHANGED <<connectVars, fx3Vars, fnVars, mnVars>>

\* __get_status: one GET_STATUS request inside __complete_command.
DfuGetStatus ==
    /\ engine = "dfu"
    /\ pc = "poll"
    /\ \/ \E s \in 0..MaxStatus, st \in DfuStates, t \in PollTimeouts :
             /\ status' = s
             /\ state' = st
             /\ poll_timeout' = t
             /\ pc' = "polled"
             /\ nonzeroSeen' = IF nonzeroSeen = 0 THEN s ELSE nonzeroSeen
             /\ faulted' = (faulted \/ s # 0 \/ st # DFU_STATE_DFU_DOWNLOAD_IDLE)
             /\ UNCHANGED <<exc, in_finalize>>
       \/ \* the transfer fails: swallowed inside __send_download_complete only
          /\ faulted' = TRUE
          /\ in_finalize' = FALSE
          /\ IF TransportErrorSwallowed(in_finalize)
             THEN pc' = "final_callback" /\ UNCHANGED exc
             ELSE pc' = "raised" /\ exc' = Raise("USBError")
          /\ UNCHANGED <<status, state, poll_timeout, nonzeroSeen>>
    /\ UNCHANGED <<engine, wire, progress, image, callback>>
    /\ UNCHANGED <<target, transfer_size, program_data, page_address, last_block_number, calls>>
    /\ UNCHANGED <<connectVars, fx3Vars, fnVars, mnVars>>

\* __complete_command after a status read: leave the loop, or sleep and poll again.
DfuCompleteCommand ==
    /\ engine = "dfu"
    /\ pc = "polled"
    /\ IF CommandFinished(state)
       THEN IF CommandFailed(status)
            THEN /\ pc' = "raised"
                 /\ exc' = DFUError(status)
                 /\ in_finalize' = FALSE
            ELSE /\ pc' = IF in_finalize THEN "final_callback" ELSE "callback"
                 /\ in_finalize' = FALSE
                 /\ UNCHANGED exc
       ELSE /\ pc' = IF poll_timeout # 0 THEN "sleep" ELSE "poll"
            /\ UNCHANGED <<exc, in_finalize>>
    \* status, state and poll_timeout are locals: the next read overwrites them
    /\ IF pc' \in {"sleep", "poll"}
       THEN status' = 0 /\ state' = 0 /\ poll_timeout' = 0
       ELSE UNCHANGED <<status, state, poll_timeout>>
    /\ UNCHANGED <<engine, wire, progress, image, callback>>
    /\ UNCHANGED <<target, transfer_size, program_data, page_address, last_block_number,
                   calls, nonzeroSeen, faulted>>
    /\ UNCHANGED <<connectVars, fx3Vars, fnVars, mnVars>>

\* time.sleep(poll_timeout / 1000)
DfuSleep ==
    /\ engine = "dfu"
    /\ pc = "sleep"
    /\ pc' = "poll"
    /\ UNCHANGED <<engine, exc, wire, progress, image, callback>>
    /\ UNCHANGED <<dfuVars, connectVars, fx3Vars, fnVars, mnVars>>

\* The status callback after a data block, and the next loop test.
DfuStatusCallback ==
    /\ engine = "dfu"
    /\ pc = "callback"
    /\ progress' = IF callback
                   THEN Append(progress, <<page_address, Len(program_data)>>)
                   ELSE progress
    /\ page_address' = page_address + transfer_size
    /\ pc' = IF page_address' < Len(program_data) THEN "write" ELSE "finalize"
    /\ UNCHANGED <<engine, exc, wire, image, callback>>
    /\ UNCHANGED <<target, transfer_size, program_data, last_block_number, in_finalize,
                   status, state, poll_timeout, calls, nonzeroSeen, faulted>>
    /\ UNCHANGED <<connectVars, fx3Vars, fnVars, mnVars>>

\* The last status callback of program(), and its return.
DfuFinalCallback ==
    /\ engine = "dfu"
    /\ pc = "final_callback"
    /\ progress' = IF callback
                   THEN Append(progress, <<Len(program_data), Len(program_data)>>)
                   ELSE progress
    /\ pc' = "done"
    /\ UNCHANGED <<engine, exc, wire, image, callback>>
    /\ UNCHANGED <<dfuVars, connectVars, fx3Vars, fnVars, mnVars>>

\* run_user_program(): pass
DfuRunUserProgram ==
    /\ engine = "dfu"
    /\ pc = "done"
    /\ pc' = "ran"
    /\ UNCHANGED <<engine, exc, wire, progress, image, callback>>
    /\ UNCHANGED <<dfuVars, connectVars, fx3Vars, fnVars, mnVars>>

IdleCommon(e) ==
    /\ engine = e
    /\ pc = "idle"
    /\ exc = NoExc
    /\ wire = <<>>
    /\ progress = <<>>
    /\ image = <<>>
    /\ callback = FALSE

IdleConnect ==
    /\ detach = FALSE
    /\ timeout = 0
    /\ runtime_mode = FALSE
    /\ attributes = 0
    /\ clock = 0
    /\ start = 0
    /\ probes = 0

IdleFx3 ==
    /\ chunks = <<>>
    /\ chunk_index = 0
    /\ to_upload = <<>>
    /\ address = 0
    /\ last_address = None
    /\ size_written = 0
    /\ total_size = 0
    /\ size_result = None

IdleMn ==
    /\ info = <<>>
    /\ device = None
    /\ wait = FALSE
    /\ requires_reconnect = FALSE
    /\ sleeps = <<>>
    /\ find_parity = 0
    /\ op = "none"
    /\ bus = None
    /\ reset_address = 0
    /\ flash_page_address = 0
    /\ raw_pages = <<>>

IdleFn ==
    /\ fn = "none"
    /\ arg = <<>>
    /\ res = None

\* A connected DFU-mode target, before its first program() call.
InitDFU ==
    /\ IdleCommon("dfu")
    /\ target \in {"dfu", "lpc43xx"}
    /\ transfer_size \in TransferSizes(target)
    /\ program_data = <<>>
    /\ page_address = 0
    /\ last_block_number = None
    /\ in_finalize = FALSE
    /\ status = 0
    /\ state = 0
    /\ poll_timeout = 0
    /\ calls = 0
    /\ nonzeroSeen = 0
    /\ faulted = FALSE
    /\ IdleConnect
    /\ IdleFx3
    /\ IdleMn
    /\ IdleFn

NextDFU ==
    \/ DfuProgram
    \/ DfuWritePage
    \/ DfuGetStatus
    \/ DfuCompleteCommand
    \/ DfuSleep
    \/ DfuStatusCallback
    \/ DfuSendDownloadComplete
    \/ DfuFinalCallback
    \/ DfuRunUserProgram

SpecDFU == InitDFU /\ [][NextDFU]_vars

-----------------------------------------------------------------------------
(* Claims about DFUTarget.program() and LPC43xxTarget.program() *)

\* ceil(a / b) for a >= 0 and b > 0: the least n with n * b >= a.
CeilDiv(a, b) == CHOOSE n \in 0..a : n * b >= a /\ (n = 0 \/ (n - 1) * b < a)

Min(a, b) == IF a < b THEN a ELSE b

\* The payloads of the requests on the wire, concatenated in the order sent.
RECURSIVE ConcatData(_)
ConcatData(w) == IF w = <<>> THEN <<>> ELSE Head(w).data \o ConcatData(Tail(w))

CallEnded == pc \in {"idle", "done", "raised", "ran"}

\* C1 as stated: once any GET_STATUS read of a program() call has reported a nonzero
\* status code, no further DOWNLOAD request is sent by that call and the call does not
\* return normally (it raises).
C1_AnyNonzeroStatusRaises ==
    [][(engine = "dfu" /\ nonzeroSeen # 0 /\ ~CallEnded)
          => (wire' = wire /\ pc' # "done")]_vars

\* C1 as amended: when the GET_STATUS read that ends the polling of a block (state
\* DownloadIdle or Error) reports a nonzero status code, program() raises the DFU
\* error carrying that code at once, and no DOWNLOAD request (data or finalize block)
\* is sent afterwards by that call.
C1_FinalNonzeroStatusRaises ==
    [][/\ (/\ engine = "dfu"
           /\ pc = "polled"
           /\ state \in {DFU_STATE_DFU_DOWNLOAD_IDLE, DFU_STATE_DFU_ERROR}
           /\ status # 0)
          => (pc' = "raised" /\ exc' = DFUError(status) /\ wire' = wire)
       /\ (engine = "dfu" /\ pc = "raised")
          => (wire' = wire \/ calls' = calls + 1)]_vars

\* A data block's final status read was nonzero, program() raised the DFU error with
\* that code, and blocks of the image were still to be sent.
C1_Witness ==
    /\ engine = "dfu"
    /\ pc = "raised"
    /\ status # 0
    /\ exc = DFUError(status)
    /\ Len(wire) = 1
    /\ page_address + transfer_size < Len(program_data)

\* C2: when every transfer succeeds and every status read reports status 0 in state
\* DownloadIdle, program(image) followed by run_user_program() does not raise, for
\* every image, the empty one included.
C2_ProgramNeverRaisesOnSuccess ==
    (engine = "dfu" /\ ~faulted) => pc # "raised"

\* The 16 header bytes and the image, as C5 describes the stream: 0xDA, 0xFF, the block
\* count program() computed (low byte, then high byte), twelve 0xFF, then the image.
C5_HeaderThenImage(img) ==
    LET n == ProgramSizeBlocks(Len(img))
    IN  <<218, 255, n % 256, n \div 256,
          255, 255, 255, 255, 255, 255, 255, 255, 255, 255, 255, 255>> \o img

IsPrefix(s, t) == Len(s) <= Len(t) /\ s = SubSeq(t, 1, Len(s))

\* C5: the stream LPC43xxTarget.program() hands to the DFU engine is the 16 header bytes
\* followed by the caller's image unchanged; the data blocks sent are always a prefix of
\* it, and once every data block is out their concatenation equals it.
C5_LpcStreamIsHeaderThenImage ==
    (engine = "dfu" /\ target = "lpc43xx" /\ calls > 0)
       => /\ program_data = C5_HeaderThenImage(image)
          /\ Len(program_data) = 16 + Len(image)
          /\ IsPrefix(ConcatData(wire), C5_HeaderThenImage(image))
          /\ (pc \in {"finalize", "final_callback", "done", "ran"}
                 => ConcatData(wire) = C5_HeaderThenImage(image))

\* An LPC43xx program() that returned, on an image long enough for a nonzero block
\* count, sent as more than one data block.
C5_Witness ==
    /\ engine = "dfu"
    /\ target = "lpc43xx"
    /\ pc = "done"
    /\ Len(image) > HEADER_SIZE
    /\ program_data[3] = 1
    /\ Len(wire) >= 3
    /\ ConcatData(wire) = C5_HeaderThenImage(image)

\* The empty block has been sent, or program() is past it.
PastFinalize == in_finalize \/ pc \in {"final_callback", "done", "ran"}

\* C13: the DOWNLOAD requests of DFUTarget.program(image) are, in order, the slices
\* image[k*transfer_size : (k+1)*transfer_size] for k = 0, 1, ..., each under block
\* number k and of at most transfer_size bytes; there are ceil(len/transfer_size) of
\* them once the loop has ended, and their payloads concatenated equal the image.
C13_BlocksAreImageSlices ==
    (engine = "dfu" /\ target = "dfu" /\ calls > 0)
       => LET n    == CeilDiv(Len(image), transfer_size)
              sent == Min(Len(wire), n)
          IN  /\ \A k \in 1..sent :
                    /\ wire[k].request = DFU_DOWNLOAD
                    /\ wire[k].value = k - 1
                    /\ wire[k].data = Slice(image, (k - 1) * transfer_size, k * transfer_size)
                    /\ Len(wire[k].data) <= transfer_size
                    /\ k > 1 => wire[k].value > wire[k - 1].value
              /\ Len(wire) <= n + 1
              /\ (pc = "finalize" \/ PastFinalize)
                    => (Len(wire) >= n /\ ConcatData(SubSeq(wire, 1, n)) = image)

\* A program() that returned after sending a 3-byte image in 2-byte blocks: the second
\* block is the short one.
C13_Witness ==
    /\ engine = "dfu"
    /\ target = "dfu"
    /\ pc = "done"
    /\ transfer_size = 2
    /\ Len(image) = 3
    /\ wire[2].value = 1
    /\ Len(wire[2].data) = 1

\* C14: in a program() call that sends at least one data block, the only zero-length
\* DOWNLOAD request is the one after the last data block; its block number is the last
\* data block's number plus one, it is sent exactly once, and nothing follows it.
C14_OneFinalizeBlock ==
    (engine = "dfu" /\ calls > 0 /\ Len(program_data) > 0)
       => LET n == CeilDiv(Len(program_data), transfer_size)
          IN  /\ Len(wire) <= n + 1
              /\ \A k \in 1..Len(wire) : (wire[k].data = <<>>) <=> (k = n + 1)
              /\ Len(wire) = n + 1
                    => /\ wire[n + 1].request = DFU_DOWNLOAD
                       /\ wire[n + 1].value = wire[n].value + 1
                       /\ pc \notin {"write", "callback", "finalize"}
              /\ PastFinalize => Len(wire) = n + 1

\* A program() that returned after two data blocks and the empty block numbered 2.
C14_Witness ==
    /\ engine = "dfu"
    /\ pc = "done"
    /\ Len(wire) = 3
    /\ wire[3].data = <<>>
    /\ wire[3].ok
    /\ wire[2].value = 1
    /\ wire[3].value = 2

\* The request just sent failed.
SendFailed == wire' # wire /\ ~wire'[Len(wire')].ok

\* C15: a transport error of the empty block's DOWNLOAD request or of one of its status
\* reads leads to the final progress callback and a normal return; a transport error
\* of a data block's DOWNLOAD request or of one of its status reads makes program()
\* raise it.
C15_FinalizeErrorsSwallowed ==
    [][engine = "dfu"
          => /\ (pc = "finalize" /\ SendFailed) => (pc' = "final_callback" /\ exc' = NoExc)
             /\ (pc = "poll" /\ in_finalize /\ pc' # "polled")
                   => (pc' = "final_callback" /\ exc' = NoExc)
             /\ pc = "final_callback"
                   => /\ pc' = "done"
                      /\ exc' = NoExc
                      /\ progress' = IF callback
                                     THEN Append(progress,
                                                 <<Len(program_data), Len(program_data)>>)
                                     ELSE progress
             /\ (pc = "write" /\ SendFailed) => (pc' = "raised" /\ exc'.type = "USBError")
             /\ (pc = "poll" /\ ~in_finalize /\ pc' # "polled")
                   => (pc' = "raised" /\ exc'.type = "USBError")]_vars

\* A program() that returned normally, with its last callback made, although the empty
\* block's DOWNLOAD request failed.
C15_Witness ==
    /\ engine = "dfu"
    /\ pc = "done"
    /\ callback
    /\ Len(wire) >= 2
    /\ wire[Len(wire)].data = <<>>
    /\ ~wire[Len(wire)].ok
    /\ progress # <<>>
    /\ progress[Len(progress)] = <<Len(program_data), Len(program_data)>>

\* C16: the k-th progress callback of DFUTarget.program(image, progress) reports the
\* number of image bytes written once the k-th data block is done, min(k*transfer_size,
\* len), with len as the total; one more callback after the empty block reports
\* (len, len).
C16_ProgressCountsBytesDone ==
    (engine = "dfu" /\ target = "dfu" /\ calls > 0 /\ callback)
       => LET n == CeilDiv(Len(image), transfer_size)
          IN  /\ Len(progress) <= n + 1
              /\ \A k \in 1..Min(Len(progress), n) :
                    progress[k] = <<Min(k * transfer_size, Len(image)), Len(image)>>
              /\ Len(progress) = n + 1 => progress[n + 1] = <<Len(image), Len(image)>>
              /\ pc = "done" => Len(progress) = n + 1

\* C17: after a status read, polling goes on unless the state is DownloadIdle or Error;
\* a read in state Error makes program() raise, whatever its status code; program()
\* goes on to the next block or to its last callback only from state DownloadIdle.
C17_ErrorStateFailsTransfer ==
    [][(engine = "dfu" /\ pc = "polled")
          => /\ state \notin {DFU_STATE_DFU_DOWNLOAD_IDLE, DFU_STATE_DFU_ERROR}
                   => pc' \in {"sleep", "poll"}
             /\ state = DFU_STATE_DFU_ERROR => pc' = "raised"
             /\ pc' \in {"callback", "final_callback"}
                   => state = DFU_STATE_DFU_DOWNLOAD_IDLE]_vars

\* C20: once set, last_block_number never decreases, whatever block writes follow on
\* the target: data blocks, the empty block, the blocks of another program() call.
C20_CursorNeverDecreases ==
    [][(engine = "dfu" /\ last_block_number # None)
          => (last_block_number' # None
                 /\ last_block_number'[1] >= last_block_number[1])]_vars

\* One program() call on a target, then run_user_program(), the caller always taking
\* its next step and every control transfer returning or failing.
NextOneCall ==
    \/ (calls = 0 /\ DfuProgram)
    \/ DfuWritePage
    \/ DfuGetStatus
    \/ DfuCompleteCommand
    \/ DfuSleep
    \/ DfuStatusCallback
    \/ DfuSendDownloadComplete
    \/ DfuFinalCallback
    \/ DfuRunUserProgram
SpecOneCall == InitDFU /\ [][NextOneCall]_vars /\ WF_vars(NextOneCall)

\* C33: a program() call that has been made ends: it returns or raises.
C33_ProgramTerminates ==
    (engine = "dfu" /\ calls = 1) ~> (pc \in {"done", "raised", "ran"})

-----------------------------------------------------------------------------
(* DFUTarget.__init__: connect and the detach handshake *)

DFU_DETACH == 0
DFU_WILL_DETACH == 8
\* time.sleep(0.1), in ms
ReconnectSleepMs == 100

\* timeout arguments a caller passes, in ms.
Timeouts == {k * TimeStep : k \in 0..MaxTimeoutSteps}
\* How long one run of find_dfu_devices and the descriptor reads can take, in ms.
ProbeDurations == {0, TimeStep}
\* bmAttributes values a device reports.
AttributeValues == {0, 1, DFU_WILL_DETACH, DFU_WILL_DETACH + 1}

\* A slip that hands the caller's detach argument on to DFUTarget.__init__.
EffectiveDetach_AsPassed(cls, d) == d

\* kwargs['detach'] = False in LPC43xxTarget.__init__
EffectiveDetach(cls, d) == IF cls = "lpc43xx" THEN FALSE ELSE d

\* detach and self.runtime_mode and (self.attributes & self.DFU_WILL_DETACH)
MustDetach(d, rt, attrs) == d /\ rt /\ BitAnd(attrs, DFU_WILL_DETACH) # 0

\* A slip that gives up on the first failed probe, whatever the time elapsed.
DeadlineExceeded_FirstProbe(now, st, limit) == now - st >= 0

\* ((time.time() - start) * 1000) >= timeout
DeadlineExceeded(now, st, limit) == now - st >= limit

\* A caller about to construct a target.
InitConnect ==
    /\ engine = "connect"
    /\ pc = "construct"
    /\ exc = NoExc
    /\ wire = <<>>
    /\ progress = <<>>
    /\ image = <<>>
    /\ callback = FALSE
    /\ IdleDfu
    /\ detach \in BOOLEAN
    /\ timeout \in Timeouts
    /\ runtime_mode = FALSE
    /\ attributes = 0
    /\ clock = 0
    /\ start = 0
    /\ probes = 0
    /\ IdleFx3
    /\ IdleMn
    /\ IdleFn

\* __init__ up to the decision to detach: find the device, read its descriptors.
ConnectFind ==
    /\ engine = "connect"
    /\ pc = "construct"
    /\ \E cls \in {"dfu", "lpc43xx"} : target' = cls
    /\ \/ \* devices[index] fails: raise BoardNotFoundError()
          /\ pc' = "raised"
          /\ exc' = Raise("BoardNotFoundError")
          /\ UNCHANGED <<runtime_mode, attributes, transfer_size>>
       \/ \* the functional descriptor does not parse
          /\ pc' = "raised"
          /\ exc' = Raise("IOError")
          /\ UNCHANGED <<runtime_mode, attributes, transfer_size>>
       \/ \E rt \in BOOLEAN, attrs \in AttributeValues, size \in 1..MaxTransferSize :
             /\ runtime_mode' = rt
             /\ attributes' = attrs
             /\ transfer_size' = size
             /\ pc' = IF MustDetach(EffectiveDetach(target', detach), rt, attrs)
                      THEN "detach" ELSE "connected"
             /\ UNCHANGED exc
    /\ UNCHANGED <<engine, wire, progress, image, callback>>
    /\ UNCHANGED <<program_data, page_address, last_block_number, in_finalize, status,
                   state, poll_timeout, calls, nonzeroSeen, faulted>>
    /\ UNCHANGED <<detach, timeout, clock, start, probes>>
    /\ UNCHANGED <<fx3Vars, fnVars, mnVars>>

\* The DETACH request: on an error nothing more happens, else the handle is released
\* and start = time.time().
ConnectDetach ==
    /\ engine = "connect"
    /\ pc = "detach"
    /\ \E ok \in BOOLEAN :
          /\ wire' = Append(wire, DfuOut(DFU_DETACH, 0, <<>>, ok))
          /\ IF ok
             THEN pc' = "probe" /\ start' = clock /\ probes' = 0
             ELSE pc' = "connected" /\ UNCHANGED <<start, probes>>
    /\ UNCHANGED <<engine, exc, progress, image, callback>>
    /\ UNCHANGED <<dfuVars, fx3Vars, fnVars, mnVars>>
    /\ UNCHANGED <<detach, timeout, runtime_mode, attributes, clock>>

\* self.__init__(index=index, detach=False, ...): one reconnect attempt of the loop.
ConnectProbe ==
    /\ engine = "connect"
    /\ pc = "probe"
    /\ probes' = probes + 1
    /\ \E d \in ProbeDurations : clock' = clock + d
    /\ \/ \* except BoardNotFoundError: pass
          /\ pc' = "check"
          /\ UNCHANGED <<exc, runtime_mode, attributes, transfer_size>>
       \/ \* the device is back: its mode and descriptor are read again
          \E rt \in BOOLEAN, attrs \in AttributeValues, size \in 1..MaxTransferSize :
             /\ runtime_mode' = rt
             /\ attributes' = attrs
             /\ transfer_size' = size
             /\ pc' = IF ~rt THEN "connected" ELSE "check"
             /\ UNCHANGED exc
       \/ \* any other exception of the nested __init__ leaves the loop
          /\ pc' = "raised"
          /\ exc' = Raise("IOError")
          /\ UNCHANGED <<runtime_mode, attributes, transfer_size>>
    /\ UNCHANGED <<engine, wire, progress, image, callback>>
    /\ UNCHANGED <<target, program_data, page_address, last_block_number, in_finalize,
                   status, state, poll_timeout, calls, nonzeroSeen, faulted>>
    /\ UNCHANGED <<detach, timeout, start>>
    /\ UNCHANGED <<fx3Vars, fnVars, mnVars>>

\* The deadline test after a failed probe.
ConnectCheckDeadline ==
    /\ engine = "connect"
    /\ pc = "check"
    /\ IF DeadlineExceeded(clock, start, timeout)
       THEN pc' = "raised" /\ exc' = Raise("BoardNotFoundError")
       ELSE pc' = "sleep" /\ UNCHANGED exc
    /\ UNCHANGED <<engine, wire, progress, image, callback>>
    /\ UNCHANGED <<dfuVars, connectVars, fx3Vars, fnVars, mnVars>>

\* time.sleep(0.1)
ConnectSleep ==
    /\ engine = "connect"
    /\ pc = "sleep"
    /\ clock' = clock + ReconnectSleepMs
    /\ pc' = "probe"
    /\ UNCHANGED <<engine, exc, wire, progress, image, callback>>
    /\ UNCHANGED <<dfuVars, fx3Vars, fnVars, mnVars>>
    /\ UNCHANGED <<detach, timeout, runtime_mode, attributes, start, probes>>

NextConnect ==
    \/ ConnectFind
    \/ ConnectDetach
    \/ ConnectProbe
    \/ ConnectCheckDeadline
    \/ ConnectSleep

SpecConnect == InitConnect /\ [][NextConnect]_vars

\* C3: after the DETACH request, the not-found failure is raised only when the time
\* elapsed since the detach is at least the timeout; while it is below the timeout a
\* failed probe (device absent, or present in run-time mode) leads to a sleep and then
\* to another probe.
C3_NotFoundOnlyAfterDeadline ==
    [][/\ (engine = "connect" /\ pc \in {"probe", "check", "sleep"}
             /\ pc' = "raised" /\ exc'.type = "BoardNotFoundError")
          => clock' - start' >= timeout
       /\ (engine = "connect" /\ pc = "check" /\ clock - start < timeout)
          => pc' = "sleep"
       /\ (engine = "connect" /\ pc = "probe")
          => (pc' \in {"check", "connected"} \/ exc'.type # "BoardNotFoundError")
       /\ (engine = "connect" /\ pc = "sleep")
          => (pc' = "probe" /\ probes' = probes)]_vars

\* The handshake gave up with not-found after more than one failed probe, under a
\* nonzero timeout.
C3_Witness ==
    /\ engine = "connect"
    /\ pc = "raised"
    /\ exc.type = "BoardNotFoundError"
    /\ probes >= 2
    /\ timeout > 0
    /\ clock - start >= timeout

\* C18: a DETACH request is sent only when detach is requested, the device is in
\* run-time mode and it advertises will-detach; once it has been sent, failed or not,
\* the reconnect polling follows, and a constructor that sent it never returns a target
\* that is in run-time mode.
C18_DetachAlwaysFollowedByReconnect ==
    [][engine = "connect"
          => /\ wire' # wire => MustDetach(detach, runtime_mode, attributes)
             /\ pc = "detach" => pc' = "probe"
             /\ (pc' = "connected" /\ wire' # <<>>) => ~runtime_mode']_vars

\* C19: whatever detach argument the caller passes and whatever mode and attributes the
\* device reports, constructing an LPC43xxTarget sends no DETACH request and never
\* enters the reconnect polling: it ends connected or raised straight after the find.
C19_LpcNeverDetaches ==
    (engine = "connect" /\ target = "lpc43xx" /\ pc # "construct")
       => /\ wire = <<>>
          /\ pc \in {"connected", "raised"}
          /\ probes = 0

\* An LPC43xxTarget constructed with detach=True on a device that reports run-time mode
\* and will-detach.
C19_Witness ==
    /\ engine = "connect"
    /\ target = "lpc43xx"
    /\ detach
    /\ runtime_mode
    /\ BitAnd(attributes, DFU_WILL_DETACH) # 0
    /\ pc = "connected"
    /\ wire = <<>>

-----------------------------------------------------------------------------
(* MicronucleusBoard: the info read and the jump patch *)

AVR_LONG_JUMP_OPCODE == 37900
AVR_RJMP_OFFSET_MASK == 4095
AVR_RJMP_OPCODE == 49152
AVR_RJMP_REACH_BYTES == 8192

\* struct.unpack(">H", ...) of two bytes
UnpackU16BE(hi, lo) == 256 * hi + lo

\* A slip that leaves out the correction of the truncated division.
PageCount_Truncated(flash, page) == IntDiv(flash, page)

\* page_count = int(flash_size / page_size), plus one if that falls short of the flash
PageCount(flash, page) ==
    LET n == IntDiv(flash, page)
    IN  IF n * page < flash THEN n + 1 ELSE n

\* A slip that adds the 2 ms in fast mode too.
WriteDuration_AlwaysSlow(encoded, fast_mode) == BitAnd(encoded, 127) + 2

\* write_duration_ms = encoded_write_duration & 0x7f, += 2 if not self.fast_mode
WriteDuration(encoded, fast_mode) == BitAnd(encoded, 127) + (IF fast_mode THEN 0 ELSE 2)

\* if (encoded_write_duration & 0x80): self.erase_duration_ms /= 4
EraseDivisor(encoded) == IF BitAnd(encoded, 128) # 0 THEN 4 ELSE 1

\* _populate_info_from_device with the device's protocol version and info packet.
\* erase_duration_ms is the fraction erase_num / erase_den (/= 4 is a true division).
PopulateInfo(protocol, packet, fast_mode) ==
    IF protocol \notin {1, 2}
    THEN [exc |-> Raise("ValueError")]
    ELSE LET flash   == UnpackU16BE(packet[1], packet[2])
             page    == packet[3]
             encoded == packet[4]
             sig     == IF protocol = 2 THEN UnpackU16BE(packet[5], packet[6]) ELSE 0
         IN  IF page = 0
             THEN [exc |-> Raise("ZeroDivisionError")]
             ELSE LET count == PageCount(flash, page)
                      write == WriteDuration(encoded, fast_mode)
                  IN  [exc                    |-> NoExc,
                       protocol               |-> protocol,
                       flash_size             |-> flash,
                       page_size              |-> page,
                       signature              |-> sig,
                       page_count             |-> count,
                       write_duration_ms      |-> write,
                       erase_num              |-> write * count,
                       erase_den              |-> EraseDivisor(encoded),
                       bootloader_start       |-> count * page]

\* page_data[offset + i] = values[i + 1], one assignment after the other: an index past
\* the end raises IndexError and a value that is no byte raises ValueError, after the
\* assignments before it have been made.
RECURSIVE StoreBytes(_, _, _)
StoreBytes(page_data, offset, values) ==
    IF values = <<>> THEN [page |-> page_data, exc |-> NoExc]
    ELSE IF offset >= Len(page_data) THEN [page |-> page_data, exc |-> Raise("IndexError")]
    ELSE IF Head(values) \notin Byte THEN [page |-> page_data, exc |-> Raise("ValueError")]
    ELSE StoreBytes([page_data EXCEPT ![offset + 1] = Head(values)], offset + 1, Tail(values))

\* A slip that tests the reach of the relative jump with < instead of <=.
ReachableByRjmp_Strict(jump_target) == jump_target < AVR_RJMP_REACH_BYTES

\* jump_target <= self.AVR_RJMP_REACH_BYTES
ReachableByRjmp(jump_target) == jump_target <= AVR_RJMP_REACH_BYTES

\* _patch_in_jump(page_data, jump_instruction_address, jump_target) on a board with the
\* given page_size: the page afterwards and the exception raised, if any.
PatchInJump(page_data, page_size, jump_instruction_address, jump_target) ==
    LET offset_into_page == jump_instruction_address % page_size
    IN  IF ReachableByRjmp(jump_target)
        THEN LET offset_bytes == jump_target - jump_instruction_address
                 offset_words == BitAnd(IntDiv(offset_bytes, 2) - 1, AVR_RJMP_OFFSET_MASK)
                 instruction  == BitOr(AVR_RJMP_OPCODE, offset_words)
             IN  StoreBytes(page_data, offset_into_page,
                            <<BitAnd(instruction, 255), instruction \div 256>>)
        ELSE StoreBytes(page_data, offset_into_page,
                        <<BitAnd(AVR_LONG_JUMP_OPCODE, 255), AVR_LONG_JUMP_OPCODE \div 256,
                          BitAnd(jump_target, 255), jump_target \div 256>>)

AVR_RJMP_OPCODE_MASK == 61440

\* A slip that reads the two bytes high byte first (">H").
UnpackU16LE_BigEndian(lo, hi) == 256 * lo + hi

\* struct.unpack("<H", ...) of two bytes
UnpackU16LE(lo, hi) == lo + 256 * hi

\* A slip that takes every first word for a relative jump.
IsRelativeJump_Any(first_word) == TRUE

\* (first_word & self.AVR_RJMP_OPCODE_MASK) == self.AVR_RJMP_OPCODE
IsRelativeJump(first_word) == BitAnd(first_word, AVR_RJMP_OPCODE_MASK) = AVR_RJMP_OPCODE

\* _extract_reset_address(program_data): the address returned, or the exception raised
\* (struct.error when program_data[0:4] holds fewer than 4 bytes).
ExtractResetAddress(data) ==
    LET head == Slice(data, 0, 4)
    IN  IF Len(head) # 4
        THEN [exc |-> Raise("struct.error"), address |-> 0]
        ELSE LET first_word  == UnpackU16LE(head[1], head[2])
                 second_word == UnpackU16LE(head[3], head[4])
             IN  IF first_word = AVR_LONG_JUMP_OPCODE
                 THEN [exc |-> NoExc, address |-> second_word]
                 ELSE IF IsRelativeJump(first_word)
                 THEN [exc |-> NoExc,
                       address |-> (BitAnd(first_word, AVR_RJMP_OFFSET_MASK) + 1) * 2]
                 ELSE [exc |-> Raise("ValueError"), address |-> 0]

-----------------------------------------------------------------------------
(* Pure functions applied to drawn inputs *)

FlashSizes == (0..MaxFlash) \cup {8192, 65535}
PageSizes == (0..MaxPage) \cup {64, 128, 255}
EncodedDurations == {0, 5, 127, 128, 133, 255}
PatchPageSizes == {4, 8}
InstrAddrs == (0..MaxInstrAddr) \cup {8188, 8190, 65532, 65535}
JumpTargets == (0..MaxTarget) \cup {8190, 8191, 8192, 8193, 12288, 65535}
\* First words of an image: the long jump, relative jumps forwards and backwards, others.
FirstWords == {37900, 37902, 0, 53248, 65535}
                 \cup {AVR_RJMP_OPCODE + k : k \in (0..MaxRjmpOffset) \cup {2047, 2048, 4095}}
SecondWords == {0, 16, 12288, 65535}

\* struct.pack("<H", w)
PackU16LE(w) == <<w % 256, w \div 256>>

\* The info packet a device with these parameters answers GET_INFO with.
InfoPacket(flash, page, encoded, sig) ==
    <<flash \div 256, flash % 256, page, encoded, sig \div 256, sig % 256>>

InitFn ==
    /\ IdleCommon("fn")
    /\ IdleDfu
    /\ IdleConnect
    /\ IdleFx3
    /\ IdleMn
    /\ res = None
    /\ \/ /\ fn = "lpc_header"
          /\ arg \in [len : 0..MaxHeaderLen]
       \/ /\ fn = "populate_info"
          /\ arg \in [protocol : 0..2, flash : FlashSizes, page : PageSizes,
                      encoded : EncodedDurations, fast_mode : BOOLEAN]
       \/ /\ fn = "extract_reset_address"
          /\ \E w0 \in FirstWords, w1 \in SecondWords, more \in 0..2 :
                arg = [w0 |-> w0, w1 |-> w1,
                       program_data |-> PackU16LE(w0) \o PackU16LE(w1) \o ImageOf(more, 1)]
       \/ /\ fn = "patch_then_extract"
          /\ \E size \in PatchPageSizes, t \in JumpTargets :
                arg = [page_data |-> ImageOf(size, 1), page_size |-> size, jump_target |-> t]
       \/ /\ fn = "patch_in_jump"
          /\ \E size \in PatchPageSizes, len \in {2, 4, 8}, a \in InstrAddrs, t \in JumpTargets :
                /\ len <= size
                /\ arg = [page_data |-> ImageOf(len, 1), page_size |-> size,
                          jump_instruction_address |-> a, jump_target |-> t]

ApplyLpcHeader ==
    /\ engine = "fn" /\ pc = "idle" /\ fn = "lpc_header"
    /\ res' = Some(LpcHeader(arg.len))
    /\ pc' = "done"
    /\ UNCHANGED <<engine, exc, wire, progress, image, callback, fn, arg>>
    /\ UNCHANGED <<dfuVars, connectVars, fx3Vars, mnVars>>

ApplyPopulateInfo ==
    /\ engine = "fn" /\ pc = "idle" /\ fn = "populate_info"
    /\ res' = Some(PopulateInfo(arg.protocol,
                                InfoPacket(arg.flash, arg.page, arg.encoded, 37643),
                                arg.fast_mode))
    /\ pc' = "done"
    /\ UNCHANGED <<engine, exc, wire, progress, image, callback, fn, arg>>
    /\ UNCHANGED <<dfuVars, connectVars, fx3Vars, mnVars>>

ApplyPatchInJump ==
    /\ engine = "fn" /\ pc = "idle" /\ fn = "patch_in_jump"
    /\ res' = Some(PatchInJump(arg.page_data, arg.page_size,
                               arg.jump_instruction_address, arg.jump_target))
    /\ pc' = "done"
    /\ UNCHANGED <<engine, exc, wire, progress, image, callback, fn, arg>>
    /\ UNCHANGED <<dfuVars, connectVars, fx3Vars, mnVars>>

ApplyExtractResetAddress ==
    /\ engine = "fn" /\ pc = "idle" /\ fn = "extract_reset_address"
    /\ res' = Some(ExtractResetAddress(arg.program_data))
    /\ pc' = "done"
    /\ UNCHANGED <<engine, exc, wire, progress, image, callback, fn, arg>>
    /\ UNCHANGED <<dfuVars, connectVars, fx3Vars, mnVars>>

\* _patch_in_jump(page_data, 0, jump_target), then _extract_reset_address(page_data),
\* which is not reached when the patch raises.
PatchThenExtract(page_data, page_size, jump_target) ==
    LET patched == PatchInJump(page_data, page_size, 0, jump_target)
    IN  IF patched.exc # NoExc
        THEN [exc |-> patched.exc, address |-> 0]
        ELSE ExtractResetAddress(patched.page)

ApplyPatchThenExtract ==
    /\ engine = "fn" /\ pc = "idle" /\ fn = "patch_then_extract"
    /\ res' = Some(PatchThenExtract(arg.page_data, arg.page_size, arg.jump_target))
    /\ pc' = "done"
    /\ UNCHANGED <<engine, exc, wire, progress, image, callback, fn, arg>>
    /\ UNCHANGED <<dfuVars, connectVars, fx3Vars, mnVars>>

NextFn ==
    \/ ApplyPatchThenExtract
    \/ ApplyExtractResetAddress
    \/ ApplyLpcHeader
    \/ ApplyPopulateInfo
    \/ ApplyPatchInJump

SpecFn == InitFn /\ [][NextFn]_vars

Applied(f) == engine = "fn" /\ fn = f /\ res # None

\* C4: for every image length, the 16-bit block-count field of the LPC43xx header
\* (bytes 2-3, little-endian) equals ceil((len + 16) / 512).
C4_BlockCountIsCeil ==
    Applied("lpc_header")
       => res[1][3] + 256 * res[1][4] = CeilDiv(arg.len + 16, 512)

\* C6 as stated: for every instruction address and target, a target <= 0x2000 writes
\* the little-endian relative-jump word 0xC000 | (((target - instr_addr)/2 - 1) & 0x0FFF)
\* at instr_addr mod page_size and changes no other byte; a larger target writes
\* 0x0C, 0x94, target low byte, target high byte there.
C6_Expected(a) ==
    LET off  == a.jump_instruction_address % a.page_size
        d    == a.jump_target - a.jump_instruction_address
        half == IF d >= 0 THEN d \div 2 ELSE -((-d) \div 2)
        word == 49152 + ((half - 1) % 4096)
    IN  IF a.jump_target <= 8192
        THEN [i \in 1..Len(a.page_data) |->
                 IF i = off + 1 THEN word % 256
                 ELSE IF i = off + 2 THEN word \div 256
                 ELSE a.page_data[i]]
        ELSE [i \in 1..Len(a.page_data) |->
                 IF i = off + 1 THEN 12
                 ELSE IF i = off + 2 THEN 148
                 ELSE IF i = off + 3 THEN a.jump_target % 256
                 ELSE IF i = off + 4 THEN a.jump_target \div 256
                 ELSE a.page_data[i]]

C6_Fits(a) ==
    (a.jump_instruction_address % a.page_size) + (IF a.jump_target <= 8192 THEN 2 ELSE 4)
        <= Len(a.page_data)

C6_PatchWritesJumpEverywhere ==
    Applied("patch_in_jump")
       => (res[1].exc = NoExc /\ res[1].page = C6_Expected(arg))

\* C6 as amended: the same, for every instruction address whose offset in the page
\* leaves room for the instruction (2 bytes for the relative jump, 4 for the long
\* jump) in the page buffer; where it does not, the patch raises an index error.
C6_PatchWritesJumpWhereItFits ==
    Applied("patch_in_jump")
       => /\ C6_Fits(arg) => (res[1].exc = NoExc /\ res[1].page = C6_Expected(arg))
          /\ ~C6_Fits(arg) => res[1].exc = Raise("IndexError")
          /\ (arg.jump_target = 16 /\ arg.jump_instruction_address = 0)
                => (res[1].page[1] = 7 /\ res[1].page[2] = 192)
          /\ (arg.jump_target = 12288 /\ C6_Fits(arg))
                => SubSeq(res[1].page, (arg.jump_instruction_address % arg.page_size) + 1,
                          (arg.jump_instruction_address % arg.page_size) + 4)
                      = <<12, 148, 0, 48>>

\* A relative jump patched over a negative distance, at a nonzero offset of the page.
C6_Witness ==
    /\ Applied("patch_in_jump")
    /\ arg.jump_target = 8192
    /\ arg.jump_instruction_address = 8188
    /\ arg.page_size = 8
    /\ res[1].exc = NoExc
    /\ res[1].page[5] = 1
    /\ res[1].page[6] = 192

\* C7: for every flash_size and every page_size > 0 the device reports, page_count is
\* ceil(flash_size / page_size), bootloader_start is page_count * page_size, and so
\* page_count * page_size >= flash_size.
C7_PageCountIsCeil ==
    (Applied("populate_info") /\ arg.page > 0 /\ arg.protocol \in {1, 2})
       => /\ res[1].exc = NoExc
          /\ res[1].flash_size = arg.flash
          /\ res[1].page_size = arg.page
          /\ res[1].page_count = CeilDiv(arg.flash, arg.page)
          /\ res[1].bootloader_start = res[1].page_count * arg.page
          /\ res[1].page_count * res[1].page_size >= arg.flash
          /\ (arg.flash = 8192 /\ arg.page = 64)
                => (res[1].page_count = 128 /\ res[1].bootloader_start = 8192)

\* The info read of a device whose flash size is no multiple of its page size.
C7_Witness ==
    /\ Applied("populate_info")
    /\ arg.flash = 37
    /\ arg.page = 8
    /\ res[1].exc = NoExc
    /\ res[1].page_count = 5
    /\ res[1].bootloader_start = 40

\* C35: a jump to t patched in at instruction address 0 and then extracted gives t
\* back, for every even t from 2 to 0x2000 (the relative jump) and for every t above
\* 0x2000 up to 0xFFFF (the long jump).
C35_PatchThenExtractReturnsTarget ==
    (Applied("patch_then_extract")
        /\ \/ (arg.jump_target % 2 = 0 /\ 2 <= arg.jump_target /\ arg.jump_target <= 8192)
           \/ (8192 < arg.jump_target /\ arg.jump_target <= 65535))
       => (res[1].exc = NoExc /\ res[1].address = arg.jump_target)

\* The farthest target of a relative jump has made the round trip.
C35_Witness ==
    /\ Applied("patch_then_extract")
    /\ arg.jump_target = 8192
    /\ res[1].address = 8192

\* The low 12 bits of a word read as a two's-complement number.
Signed12(w) == LET low == w % 4096 IN IF low >= 2048 THEN low - 4096 ELSE low

\* C22: the reset address extracted from an image whose first two little-endian words
\* are (w0, w1) is w1 when w0 = 0x940C, and (offset + 1) * 2 when the top four bits of
\* w0 are 0xC, offset being the low 12 bits of w0 read as a signed 12-bit number.
C22_ResetAddressDecodesSignedOffset ==
    Applied("extract_reset_address")
       => /\ arg.w0 = 37900 => (res[1].exc = NoExc /\ res[1].address = arg.w1)
          /\ (arg.w0 \div 4096 = 12)
                => (res[1].exc = NoExc /\ res[1].address = (Signed12(arg.w0) + 1) * 2)

\* C29: for every encoded_duration byte, write_duration_ms is its low seven bits plus
\* 2, or the low seven bits alone in fast mode; erase_duration_ms is write_duration_ms
\* times page_count, divided by 4 exactly when bit 7 of encoded_duration is set.
C29_DurationsFollowEncoding ==
    (Applied("populate_info") /\ res[1].exc = NoExc)
       => /\ res[1].write_duration_ms
                = (arg.encoded % 128) + (IF arg.fast_mode THEN 0 ELSE 2)
          /\ res[1].erase_num = res[1].write_duration_ms * res[1].page_count
          /\ res[1].erase_den = (IF arg.encoded >= 128 THEN 4 ELSE 1)

\* The info read of a board that reports 0x85 in fast mode: 5 ms per write, and the
\* erase time a quarter of 5 ms times the page count.
C29_Witness ==
    /\ Applied("populate_info")
    /\ res[1].exc = NoExc
    /\ arg.encoded = 133
    /\ arg.fast_mode
    /\ res[1].write_duration_ms = 5
    /\ res[1].page_count > 1
    /\ res[1].erase_num = 5 * res[1].page_count
    /\ res[1].erase_den = 4

-----------------------------------------------------------------------------
(* MicronucleusBoard: erase() and the reconnect of _try_connect *)

REQUEST_WRITE_PAGE == 1
REQUEST_ERASE_FLASH == 2
REQUEST_WRITE_DWORD == 3
\* post_connect_delay=0.5, in ms
PostConnectDelayMs == 500

\* What usb.core.find returns: None, or a device, written as its bcdDevice >> 8.
Candidates == {None} \cup {Some(major) : major \in 2..3}

\* _validate_device_compatibility(candidate)
ValidateDeviceCompatibility(candidate) ==
    IF candidate = None THEN FALSE ELSE candidate[1] <= 2

\* One vendor OUT request of _request_out; ok: whether ctrl_transfer returned.
MnOut(number, value, index, data, ok) ==
    [request |-> number, value |-> value, index |-> index, data |-> data, ok |-> ok]

\* Boards the info read describes: flash and page sizes, encoded write durations.
MnFlashSizes == {8, 12, 16}
MnPageSizes == {4, 8}
MnEncodedDurations == {5, 133}

\* Images a caller passes to program(): two leading words (a long jump, relative jumps,
\* something else) and more bytes, cut to a length.
MnImageHeads == {<<AVR_LONG_JUMP_OPCODE, 16>>, <<AVR_LONG_JUMP_OPCODE, 12288>>,
                 <<AVR_RJMP_OPCODE + 7, 4660>>, <<AVR_RJMP_OPCODE + 4095, 4660>>,
                 <<0, 4660>>}
MnImageLens == {2, 6} \cup {4 * k : k \in 1..MaxMnImageWords}
MnImage(head, len) ==
    Slice(PackU16LE(head[1]) \o PackU16LE(head[2]) \o ImageOf(len, 1), 0, len)

\* A board object bound to a device of more than one page, its info read (as
\* _populate_info_from_device leaves it).
InitMn ==
    /\ IdleCommon("mn")
    /\ IdleDfu
    /\ IdleConnect
    /\ IdleFx3
    /\ IdleFn
    /\ \E protocol \in {1, 2}, flash \in MnFlashSizes, page \in MnPageSizes,
          encoded \in MnEncodedDurations :
          \* the board with the long write duration is the one opened in fast mode
          /\ info = PopulateInfo(protocol, InfoPacket(flash, page, encoded, 37643),
                                 encoded > 127)
          /\ info.page_count > 1
          /\ device = Some(protocol)
    /\ wait = FALSE
    /\ requires_reconnect = FALSE
    /\ sleeps = <<>>
    /\ find_parity = 0
    /\ op = "none"
    /\ bus = device
    /\ reset_address = 0
    /\ flash_page_address = 0
    /\ raw_pages = <<>>

\* A slip that goes on after a failed erase request as after a successful one.
RequiresReconnect_Never(ok) == FALSE

\* except usb.core.USBError: requires_reconnect = True
RequiresReconnect(ok) == ~ok

\* Where the caller is once erase() has returned: in the page loop of program(), whose
\* range(0, self.flash_size, self.page_size) may be empty, or back from erase().
AfterErase == IF op = "program" /\ 0 < info.flash_size THEN "page" ELSE "done"

\* program(program_data, status_callback) up to the call of erase().
MnProgram ==
    /\ engine = "mn"
    /\ pc = "idle"
    /\ op' = "program"
    /\ \E head \in MnImageHeads, len \in MnImageLens, cb \in BOOLEAN :
          /\ image' = MnImage(head, len)
          /\ callback' = cb
    /\ LET extracted == ExtractResetAddress(image')
       IN  IF extracted.exc # NoExc
           THEN pc' = "raised" /\ exc' = extracted.exc /\ UNCHANGED reset_address
           ELSE pc' = "erase" /\ reset_address' = extracted.address /\ UNCHANGED exc
    /\ flash_page_address' = 0
    /\ UNCHANGED <<engine, wire, progress>>
    /\ UNCHANGED <<info, device, wait, requires_reconnect, sleeps, find_parity, bus, raw_pages>>
    /\ UNCHANGED <<dfuVars, connectVars, fx3Vars, fnVars>>

\* erase(): the ERASE_FLASH request; a USBError sets requires_reconnect.
MnErase ==
    /\ engine = "mn"
    /\ pc \in {"idle", "erase"}
    /\ op' = IF pc = "idle" THEN "erase" ELSE op
    /\ \E ok \in BOOLEAN :
          /\ wire' = Append(wire, MnOut(REQUEST_ERASE_FLASH, 0, 0, <<>>, ok))
          /\ requires_reconnect' = RequiresReconnect(ok)
    /\ pc' = "erase_sleep"
    /\ UNCHANGED <<engine, exc, progress, image, callback>>
    /\ UNCHANGED <<info, device, wait, sleeps, find_parity, bus, reset_address,
                   flash_page_address, raw_pages>>
    /\ UNCHANGED <<dfuVars, connectVars, fx3Vars, fnVars>>

\* time.sleep(self.erase_duration_ms / 1000.0), then the test of requires_reconnect.
MnEraseSleep ==
    /\ engine = "mn"
    /\ pc = "erase_sleep"
    /\ sleeps' = Append(sleeps, <<info.erase_num, info.erase_den>>)
    /\ pc' = IF requires_reconnect THEN "reconnect" ELSE AfterErase
    /\ UNCHANGED <<engine, exc, wire, progress, image, callback>>
    /\ UNCHANGED <<info, device, wait, requires_reconnect, find_parity, op, bus,
                   reset_address, flash_page_address, raw_pages>>
    /\ UNCHANGED <<dfuVars, connectVars, fx3Vars, fnVars>>

\* reconnect(wait), called by erase() with the default wait=True or by the caller with
\* either value: _try_connect(wait) up to its loop, self.device = None. The device may
\* be on the bus or not.
MnReconnect ==
    /\ engine = "mn"
    /\ pc \in {"idle", "reconnect"}
    /\ op' = IF pc = "idle" THEN "reconnect" ELSE op
    /\ \E w \in BOOLEAN : wait' = w /\ (pc = "reconnect" => w)
    /\ bus' \in Candidates
    /\ device' = None
    /\ find_parity' = 0
    /\ pc' = "loop"
    /\ UNCHANGED <<engine, exc, wire, progress, image, callback>>
    /\ UNCHANGED <<info, requires_reconnect, sleeps, reset_address, flash_page_address,
                   raw_pages>>
    /\ UNCHANGED <<dfuVars, connectVars, fx3Vars, fnVars>>

\* while (not self.device) and wait
TryConnectLoops(dev, w) == dev = None /\ w

\* One pass of the loop of _try_connect: usb.core.find and the compatibility test. After
\* a miss the bus may have changed by the next pass.
MnFind ==
    /\ engine = "mn"
    /\ pc = "loop"
    /\ TryConnectLoops(device, wait)
    /\ IF ValidateDeviceCompatibility(bus)
       THEN device' = bus /\ UNCHANGED bus
       ELSE device' = None /\ bus' \in Candidates
    /\ find_parity' = 1 - find_parity
    /\ UNCHANGED <<engine, pc, exc, wire, progress, image, callback>>
    /\ UNCHANGED <<info, wait, requires_reconnect, sleeps, op, reset_address,
                   flash_page_address, raw_pages>>
    /\ UNCHANGED <<dfuVars, connectVars, fx3Vars, fnVars>>

\* The end of _try_connect: the post-connect sleep, then BoardNotFoundError if no device
\* is bound, which erase() turns into ProgrammingFailureError.
MnPostConnect ==
    /\ engine = "mn"
    /\ pc = "loop"
    /\ ~TryConnectLoops(device, wait)
    /\ sleeps' = Append(sleeps, <<PostConnectDelayMs, 1>>)
    /\ IF device = None
       THEN /\ pc' = "raised"
            /\ exc' = IF op = "reconnect" THEN Raise("BoardNotFoundError")
                      ELSE Raise("ProgrammingFailureError")
       ELSE /\ pc' = IF op = "reconnect" THEN "done" ELSE AfterErase
            /\ UNCHANGED exc
    /\ UNCHANGED <<engine, wire, progress, image, callback>>
    /\ UNCHANGED <<info, device, wait, requires_reconnect, find_parity, op, bus,
                   reset_address, flash_page_address, raw_pages>>
    /\ UNCHANGED <<dfuVars, connectVars, fx3Vars, fnVars>>

\* A slip that takes only pages past bootloader_start - page_size for the last page.
IsLastPage_Strict(addr, bootloader_start, page_size) ==
    addr > bootloader_start - page_size

\* is_last_page = (page_address >= (self.bootloader_start - self.page_size))
IsLastPage(addr, bootloader_start, page_size) ==
    addr >= bootloader_start - page_size

\* A slip that patches the first page whatever the protocol.
PatchesFirstPage_Always(protocol) == TRUE

\* if self.protocol == 2, of _patch_first_page
PatchesFirstPage(protocol) == protocol = 2

\* _patch_first_page(page_data)
PatchFirstPage(page_data) ==
    IF PatchesFirstPage(info.protocol)
    THEN PatchInJump(page_data, info.page_size, 0, info.bootloader_start)
    ELSE [page |-> page_data, exc |-> NoExc]

\* data extended with 0xFF bytes to page_size, when shorter
PadPage(data, page_size) ==
    IF Len(data) < page_size
    THEN data \o [i \in 1..(page_size - Len(data)) |-> 255]
    ELSE data

\* _patch_last_page(page_data, reset_address)
PatchLastPage(page_data, reset) ==
    PatchInJump(PadPage(page_data, info.page_size), info.page_size,
                info.bootloader_start - 4, reset)

\* A slip that writes a page whether or not it holds data.
PageIsWritten_Always(data_to_program) == TRUE

\* if data_to_program
PageIsWritten(data_to_program) == data_to_program # <<>>

\* A slip that packs the two bytes of a half of the word high byte first.
DwordHalf_Swapped(low, high) == BitOr(low * 256, high)

\* (chunk[1] << 8) | chunk[0], and the same of chunk[3] and chunk[2]
DwordHalf(low, high) == BitOr(high * 256, low)

\* The requests of __raw_write_page_v2 after the first: one WRITE_DWORD per four bytes;
\* a chunk shorter than four bytes raises IndexError before its request.
RECURSIVE DwordRequests(_, _)
DwordRequests(data, offset) ==
    IF offset >= info.page_size THEN [reqs |-> <<>>, exc |-> NoExc]
    ELSE LET chunk == Slice(data, offset, offset + 4)
         IN  IF Len(chunk) < 4 THEN [reqs |-> <<>>, exc |-> Raise("IndexError")]
             ELSE LET rest == DwordRequests(data, offset + 4)
                  IN  [reqs |-> <<MnOut(REQUEST_WRITE_DWORD, DwordHalf(chunk[1], chunk[2]),
                                        DwordHalf(chunk[3], chunk[4]), <<>>, TRUE)>>
                                \o rest.reqs,
                       exc  |-> rest.exc]

\* __raw_write_page(address, data), the address written addr: the requests it makes if every transfer succeeds,
\* and the exception it then raises, if any.
RawWritePage(addr, data) ==
    LET padded == PadPage(data, info.page_size)
    IN  IF info.protocol = 1
        THEN [reqs |-> <<MnOut(REQUEST_WRITE_PAGE, info.page_size, addr, padded, TRUE)>>,
              exc  |-> NoExc]
        ELSE LET words == DwordRequests(padded, 0)
             IN  [reqs |-> <<MnOut(REQUEST_WRITE_PAGE, info.page_size, addr, <<>>, TRUE)>>
                           \o words.reqs,
                  exc  |-> words.exc]

\* A slip that makes one more pass when the flash ends on a page boundary.
PageLoopContinues_Inclusive(next_address, flash_size) == next_address <= flash_size

\* for page_address in range(0, self.flash_size, self.page_size): whether there is a
\* pass for next_address
PageLoopContinues(next_address, flash_size) == next_address < flash_size

\* One pass of the loop of program(): the slice of the image, the patches, the page
\* write with its wait, the status callback. sent: how many transfers of the page write
\* succeed; the one after them, if there is one, fails with a USBError.
MnProgramPage ==
    /\ engine = "mn"
    /\ pc = "page"
    /\ LET is_first_page == flash_page_address = 0
           is_last_page  == IsLastPage(flash_page_address, info.bootloader_start,
                                       info.page_size)
           sliced  == Slice(image, flash_page_address, flash_page_address + info.page_size)
           first   == IF is_first_page THEN PatchFirstPage(sliced)
                      ELSE [page |-> sliced, exc |-> NoExc]
           patched == IF first.exc = NoExc /\ is_last_page
                      THEN PatchLastPage(first.page, reset_address)
                      ELSE first
           next    == flash_page_address + info.page_size
       IN  IF patched.exc # NoExc
           THEN /\ pc' = "raised"
                /\ exc' = patched.exc
                /\ UNCHANGED <<wire, sleeps, progress, flash_page_address, raw_pages>>
           ELSE LET written == PageIsWritten(patched.page)
                    write   == IF written THEN RawWritePage(flash_page_address, patched.page)
                               ELSE [reqs |-> <<>>, exc |-> NoExc]
                IN  /\ raw_pages' = IF written
                                    THEN Append(raw_pages, [address |-> flash_page_address,
                                                            data    |-> patched.page])
                                    ELSE raw_pages
                    /\ \E sent \in 0..Len(write.reqs) :
                          IF sent < Len(write.reqs)
                          THEN /\ wire' = wire \o SubSeq(write.reqs, 1, sent)
                                               \o <<[write.reqs[sent + 1] EXCEPT !.ok = FALSE]>>
                               /\ pc' = "raised"
                               /\ exc' = Raise("USBError")
                               /\ UNCHANGED <<sleeps, progress, flash_page_address>>
                          ELSE /\ wire' = wire \o write.reqs
                               /\ IF write.exc # NoExc
                                  THEN /\ pc' = "raised"
                                       /\ exc' = write.exc
                                       /\ UNCHANGED <<sleeps, progress, flash_page_address>>
                                  ELSE /\ sleeps' = IF written
                                                    THEN Append(sleeps,
                                                                <<info.write_duration_ms, 1>>)
                                                    ELSE sleeps
                                       /\ progress' = IF callback
                                                      THEN Append(progress,
                                                                  <<flash_page_address,
                                                                    info.flash_size>>)
                                                      ELSE progress
                                       /\ IF PageLoopContinues(next, info.flash_size)
                                          THEN /\ flash_page_address' = next
                                               /\ UNCHANGED pc
                                          ELSE /\ pc' = "done"
                                               /\ UNCHANGED flash_page_address
                                       /\ UNCHANGED exc
    /\ UNCHANGED <<engine, image, callback>>
    /\ UNCHANGED <<info, device, wait, requires_reconnect, find_parity, op, bus,
                   reset_address>>
    /\ UNCHANGED <<dfuVars, connectVars, fx3Vars, fnVars>>

NextMn ==
    \/ MnProgram
    \/ MnErase
    \/ MnEraseSleep
    \/ MnReconnect
    \/ MnFind
    \/ MnPostConnect
    \/ MnProgramPage

SpecMn == InitMn /\ [][NextMn]_vars

\* Both reconnection loops, the caller always taking its next step: erase() and
\* reconnect() of the Micronucleus board, the constructor of the DFU target.
InitReconnect == InitMn \/ InitConnect
NextMnReconnect ==
    \/ MnErase
    \/ MnEraseSleep
    \/ MnReconnect
    \/ MnFind
    \/ MnPostConnect
NextReconnect == NextMnReconnect \/ NextConnect
SpecReconnect == InitReconnect /\ [][NextReconnect]_vars /\ WF_vars(NextReconnect)

\* C11: a successful erase request is followed by the erase wait and no reconnect; a
\* failed one by the erase wait and then a reconnect attempt; and once a reconnect
\* attempt has not found the device, erase() raises the programming failure without
\* another attempt.
C11_FailedReconnectRaises ==
    [][/\ (engine = "mn" /\ op = "erase" /\ pc = "erase_sleep")
          => /\ sleeps' = Append(sleeps, <<info.erase_num, info.erase_den>>)
             /\ pc' = IF requires_reconnect THEN "reconnect" ELSE "done"
       /\ (engine = "mn" /\ op = "erase" /\ pc = "loop" /\ device = None /\ find_parity = 1)
          => (pc' = "raised" /\ exc'.type = "ProgrammingFailureError"
                 /\ find_parity' = find_parity)]_vars

\* C12: a reconnection loop that has been entered is eventually left: the Micronucleus
\* erase-recovery reconnect ends (bound again, or the programming failure), and the DFU
\* detach handshake ends (connected, or not-found).
C12_ReconnectLoopsEnd ==
    ((engine = "mn" /\ op = "erase" /\ pc = "loop") \/ (engine = "connect" /\ pc = "probe"))
       ~> (pc \in {"done", "raised", "connected"})

\* C21: reconnect(wait=False) with a compatible device on the bus binds to it after the
\* post-connect delay and returns; it raises not-found only when no compatible device is
\* on the bus.
C21_ConnectWithoutWaitBindsPresentDevice ==
    [][(engine = "mn" /\ op = "reconnect" /\ ~wait /\ pc = "loop")
          => /\ sleeps' = Append(sleeps, <<PostConnectDelayMs, 1>>)
             /\ IF ValidateDeviceCompatibility(bus)
                THEN pc' = "done" /\ device' = bus
                ELSE pc' = "raised" /\ exc'.type = "BoardNotFoundError"]_vars

\* The first word of the image, read little-endian, when the image has one.
FirstWordOf(data) == data[1] + 256 * data[2]

\* The image of the current program() call starts with something that is no jump.
NoJumpAtStart ==
    /\ engine = "mn"
    /\ op = "program"
    /\ Len(image) >= 2
    /\ FirstWordOf(image) # 37900
    /\ FirstWordOf(image) \div 4096 # 12

\* C23: program() on an image whose first word is neither 0x940C nor 0xCxxx has
\* raised (ValueError when the image has its four leading bytes, struct.error when it
\* is shorter) with no request sent, no wait made and no progress callback made.
C23_BadFirstWordFailsBeforeAnyRequest ==
    NoJumpAtStart
       => /\ pc = "raised"
          /\ exc.type = IF Len(image) >= 4 THEN "ValueError" ELSE "struct.error"
          /\ wire = <<>>
          /\ sleeps = <<>>
          /\ progress = <<>>
          /\ raw_pages = <<>>

C23_Witness == NoJumpAtStart /\ Len(image) >= 4 /\ pc = "raised"

\* The positions on the wire of the erase requests.
EraseRequests == {k \in 1..Len(wire) : wire[k].request = REQUEST_ERASE_FLASH}

\* C24: in program(), nothing is on the wire before the erase request, which is the
\* first and only erase request; no page request is sent while erase() is waiting or
\* reconnecting; page requests follow a failed erase request only once the reconnect
\* has ended with its post-connect wait; and a call that ended in the programming
\* failure has sent nothing but the erase request.
C24_OneEraseBeforePageWrites ==
    (engine = "mn" /\ op = "program")
       => /\ (pc = "erase") => wire = <<>>
          /\ (wire # <<>>) => EraseRequests = {1}
          /\ (pc \in {"erase_sleep", "reconnect", "loop"}) => Len(wire) = 1
          /\ (pc \in {"page", "done"}) => wire # <<>>
          /\ (Len(wire) > 1 /\ ~wire[1].ok)
                => (Len(sleeps) >= 2 /\ sleeps[2] = <<PostConnectDelayMs, 1>>)
          /\ (pc = "raised" /\ exc.type = "ProgrammingFailureError") => Len(wire) = 1

C24_Witness ==
    /\ engine = "mn"
    /\ op = "program"
    /\ pc = "done"
    /\ ~wire[1].ok
    /\ Len(wire) > 2

\* The pages the device has been sent, in order, as it reassembles them: a WRITE_PAGE
\* request opens the page at its index with its body, and a WRITE_DWORD request adds the
\* two bytes of its value and the two bytes of its index, low byte first.
RECURSIVE DecodePages(_)
DecodePages(w) ==
    IF w = <<>> THEN <<>>
    ELSE LET r     == w[Len(w)]
             pages == DecodePages(SubSeq(w, 1, Len(w) - 1))
         IN  IF r.request = REQUEST_WRITE_PAGE
             THEN Append(pages, [address |-> r.index, data |-> r.data])
             ELSE IF r.request = REQUEST_WRITE_DWORD /\ pages # <<>>
             THEN [pages EXCEPT ![Len(pages)].data =
                      @ \o <<r.value % 256, r.value \div 256, r.index % 256, r.index \div 256>>]
             ELSE pages

SentPages == DecodePages(wire)
WritesTo(a) == {k \in 1..Len(SentPages) : SentPages[k].address = a}

\* The page addresses of the flash and the address of the final page.
PageAddresses == {a \in 0..(info.flash_size - 1) : a % info.page_size = 0}
FinalPageAddress == info.bootloader_start - info.page_size

\* The bytes of the image that lie in the page at a, filled with 0xFF to a whole page.
PaddedImagePage(a) ==
    LET part == Slice(image, a, a + info.page_size)
    IN  [i \in 1..info.page_size |-> IF i <= Len(part) THEN part[i] ELSE 255]

\* The reset address of the image with the offset of a relative jump read as signed.
SignedResetAddress(data) ==
    IF FirstWordOf(data) = 37900 THEN data[3] + 256 * data[4]
    ELSE (Signed12(FirstWordOf(data)) + 1) * 2

\* The bytes of a jump at address at to dest (both even): within the first 8 KiB a
\* relative jump 0xCnnn with nnn the word offset less one, in 12 bits; else 0x940C and
\* the dest; each word low byte first.
JumpBytes(at, dest) ==
    IF dest <= 8192
    THEN LET word == 49152 + (((dest - at) \div 2 - 1) % 4096)
         IN  <<word % 256, word \div 256>>
    ELSE <<12, 148, dest % 256, dest \div 256>>

\* page with bytes laid over it from the 0-based offset on.
Overlay(page, offset, bytes) ==
    [i \in 1..Len(page) |-> IF i > offset /\ i <= offset + Len(bytes)
                            THEN bytes[i - offset] ELSE page[i]]

ProgramDone == engine = "mn" /\ op = "program" /\ pc = "done"

\* C25: when program() has returned, the page at bootloader_start - page_size has been
\* sent exactly once, page_size bytes long: the image's bytes of that page, 0xFF where
\* the image has none, and over its last four bytes, from offset page_size - 4 on, the
\* jump at bootloader_start - 4 to the reset address extracted from the image. The
\* bytes of that jump are the same whether the offset of a relative jump at the start of
\* the image is read as signed or as unsigned: the two addresses are 4096 words apart.
C25_FinalPageCarriesResetJump ==
    ProgramDone
       => /\ Cardinality(WritesTo(FinalPageAddress)) = 1
          /\ \A k \in WritesTo(FinalPageAddress) :
                /\ SentPages[k].data =
                      Overlay(PaddedImagePage(FinalPageAddress), info.page_size - 4,
                              JumpBytes(info.bootloader_start - 4,
                                        ExtractResetAddress(image).address))
                /\ SentPages[k].data =
                      Overlay(PaddedImagePage(FinalPageAddress), info.page_size - 4,
                              JumpBytes(info.bootloader_start - 4,
                                        SignedResetAddress(image)))

\* An image that ends before the final page has been programmed, its reset address one
\* that takes the long jump.
C25_Witness ==
    /\ ProgramDone
    /\ Len(image) < FinalPageAddress
    /\ ExtractResetAddress(image).address > 8192

\* C26: when program() has returned, a page past the end of the image that is neither
\* the first nor the final page has not been sent, every page of the flash in which the
\* image has a byte has been sent once and page_size bytes long, the pages between the
\* first and the final one as the image's bytes filled with 0xFF, and nothing has been
\* sent to any other address.
C26_EmptyMiddlePagesSkipped ==
    ProgramDone
       => /\ \A a \in PageAddresses :
                /\ (a >= Len(image) /\ a # 0 /\ a # FinalPageAddress) => WritesTo(a) = {}
                /\ (a < Len(image)) => Cardinality(WritesTo(a)) = 1
                /\ \A k \in WritesTo(a) :
                      /\ Len(SentPages[k].data) = info.page_size
                      /\ (a # 0 /\ a # FinalPageAddress)
                            => SentPages[k].data = PaddedImagePage(a)
          /\ \A k \in 1..Len(SentPages) : SentPages[k].address \in PageAddresses

\* A board of four pages programmed with an image that ends inside its second page.
C26_Witness ==
    /\ ProgramDone
    /\ info.page_count = 4
    /\ Len(image) = 6
    /\ Len(SentPages) = 3

PageRequests(a, data) ==
    LET padded == [i \in 1..info.page_size |-> IF i <= Len(data) THEN data[i] ELSE 255]
    IN  IF info.protocol = 2
        THEN <<MnOut(REQUEST_WRITE_PAGE, info.page_size, a, <<>>, TRUE)>>
             \o [k \in 1..(info.page_size \div 4) |->
                    MnOut(REQUEST_WRITE_DWORD,
                          padded[4 * k - 3] + 256 * padded[4 * k - 2],
                          padded[4 * k - 1] + 256 * padded[4 * k], <<>>, TRUE)]
        ELSE <<MnOut(REQUEST_WRITE_PAGE, info.page_size, a, padded, TRUE)>>

RECURSIVE AllPageRequests(_)
AllPageRequests(pages) ==
    IF pages = <<>> THEN <<>>
    ELSE PageRequests(Head(pages).address, Head(pages).data) \o AllPageRequests(Tail(pages))

\* C28: in program(), what follows the erase request on the wire is, page by page in
\* the order of the raw page writes, the requests of each page and nothing else; all of
\* them while the call goes on or has returned, and up to the transfer that failed once
\* one has.
C28_PageWriteRequestShapes ==
    (engine = "mn" /\ op = "program" /\ wire # <<>>)
       => LET sent     == Tail(wire)
              expected == AllPageRequests(raw_pages)
          IN  /\ Len(sent) <= Len(expected)
              /\ \A k \in 1..Len(sent) : [sent[k] EXCEPT !.ok = TRUE] = expected[k]
              /\ \A k \in 1..(Len(sent) - 1) : sent[k].ok
              /\ (pc \in {"page", "done"})
                    => (Len(sent) = Len(expected) /\ \A k \in 1..Len(sent) : sent[k].ok)

\* Two pages of eight bytes written under protocol 2: six page requests.
C28_Witness ==
    /\ ProgramDone
    /\ info.protocol = 2
    /\ info.page_size = 8
    /\ Len(raw_pages) = 2
    /\ Len(wire) = 7

\* C34: in program(), the pages sent so far are at multiples of page_size from 0 to
\* bootloader_start - page_size, each at a higher address than the one before, and none
\* reaches bootloader_start.
C34_PageWritesAscendBelowBootloader ==
    (engine = "mn" /\ op = "program")
       => /\ \A k \in 1..Len(SentPages) :
                /\ SentPages[k].address % info.page_size = 0
                /\ SentPages[k].address >= 0
                /\ SentPages[k].address <= FinalPageAddress
                /\ SentPages[k].address + Len(SentPages[k].data) <= info.bootloader_start
          /\ \A k \in 1..(Len(SentPages) - 1) :
                SentPages[k].address < SentPages[k + 1].address

\* An image longer than the flash programmed on a board of four pages.
C34_Witness ==
    /\ ProgramDone
    /\ Len(image) > info.bootloader_start
    /\ info.flash_size = info.bootloader_start
    /\ Len(SentPages) = 4
    /\ SentPages[4].address = FinalPageAddress

-----------------------------------------------------------------------------
(* FX3Target: the image decoder and the streamer *)

USB_REQUEST_MAX_SIZE == 2048
VENDOR_REQUEST_UPLOAD == 160

\* struct.unpack("<I", ...) of four bytes
UnpackU32LE(b) == b[1] + 256 * b[2] + 65536 * b[3] + 16777216 * b[4]

\* A slip that takes the declared size for a byte count.
ChunkSizeBytes_Words(size_words) == size_words

\* size *= 4
ChunkSizeBytes(size_words) == size_words * 4

\* A slip that stops the loop when exactly one chunk header remains.
HeaderRemains_Strict(remaining_data) == Len(remaining_data) > 8

\* while len(remaining_data) >= 8
HeaderRemains(remaining_data) == Len(remaining_data) >= 8

\* A slip that keeps the chunks in a list, one entry per chunk header.
DictSet_Append(d, key, value) == Append(d, [address |-> key, data |-> value])

\* program_chunks[address] = data on an OrderedDict kept as a sequence of entries: a
\* key already present keeps its position and takes the new value.
DictSet(d, key, value) ==
    IF \E i \in 1..Len(d) : d[i].address = key
    THEN [i \in 1..Len(d) |-> IF d[i].address = key
                              THEN [address |-> key, data |-> value] ELSE d[i]]
    ELSE Append(d, [address |-> key, data |-> value])

\* The loop of _parse_program_data over the bytes after the file header.
RECURSIVE ParseChunks(_, _)
ParseChunks(remaining_data, program_chunks) ==
    IF ~HeaderRemains(remaining_data)
    THEN [exc |-> NoExc, chunks |-> program_chunks]
    ELSE LET size == ChunkSizeBytes(UnpackU32LE(SubSeq(remaining_data, 1, 4)))
             addr == UnpackU32LE(SubSeq(remaining_data, 5, 8))
             rest == Slice(remaining_data, 8, Len(remaining_data))
         IN  IF Len(rest) < size
             THEN [exc |-> Raise("EOFError"), chunks |-> program_chunks]
             ELSE ParseChunks(Slice(rest, size, Len(rest)),
                              DictSet(program_chunks, addr, Slice(rest, 0, size)))

\* _parse_program_data(program_data)
ParseProgramData(data) ==
    IF Slice(data, 0, 2) # <<67, 89>>
    THEN [exc |-> Raise("ValueError"), chunks |-> <<>>]
    ELSE ParseChunks(Slice(data, 4, Len(data)), <<>>)

\* The sum of len(data) over chunks_to_program.items()
RECURSIVE SumChunkSizes(_)
SumChunkSizes(d) == IF d = <<>> THEN 0 ELSE Len(Head(d).data) + SumChunkSizes(Tail(d))

\* A slip that sends every request of a chunk to the chunk's first address.
NextUploadAddress_Same(addr, chunk) == addr

\* address += len(chunk)
NextUploadAddress(addr, chunk) == addr + Len(chunk)

\* _firmware_request(address, data): the vendor request carrying the address in
\* value (low half) and index (high half); ok: whether ctrl_transfer returned.
FirmwareRequest(addr, data, ok) ==
    [request |-> VENDOR_REQUEST_UPLOAD, value |-> addr % 65536, index |-> addr \div 65536,
     data |-> data, ok |-> ok]

(* Images a caller passes, built from a list of declared chunks *)

FxAddresses == {256, 66051}
\* Numbers of bytes that follow the last chunk.
TrailingLens == {0, 3, 7}

U32LE(n) == <<n % 256, (n \div 256) % 256, (n \div 65536) % 256, (n \div 16777216) % 256>>

\* The data bytes of the k-th declared chunk.
ChunkData(k, words) == [i \in 1..(4 * words) |-> (65 + 16 * k + i) % 128]

\* Word counts of chunks that need more than one write request: two and three.
LargeChunkWords == {USB_REQUEST_MAX_SIZE \div 4 + 1, 2 * (USB_REQUEST_MAX_SIZE \div 4) + 1}

\* Word counts the k-th chunk of an image declares: a large chunk comes first.
ChunkWords(k) == (0..MaxChunkWords) \cup (IF k = 1 THEN LargeChunkWords ELSE {})

RECURSIVE EncodeChunks(_, _)
EncodeChunks(decl, k) ==
    IF k > Len(decl) THEN <<>>
    ELSE U32LE(decl[k].words) \o U32LE(decl[k].address) \o ChunkData(k, decl[k].words)
            \o EncodeChunks(decl, k + 1)

\* The file: "CY" (or another magic), two reserved bytes, the chunks, `trailing` more
\* bytes, and the whole cut short by `cut` bytes.
EncodeImage(a) ==
    LET whole == (IF a.magic_ok THEN <<67, 89>> ELSE <<67, 88>>) \o <<0, 0>>
                    \o EncodeChunks(a.decl, 1) \o [i \in 1..a.trailing |-> 1]
    IN  SubSeq(whole, 1, Len(whole) - a.cut)

ChunkDecls ==
    UNION {{decl \in [1..n -> [address : FxAddresses,
                               words : (0..MaxChunkWords) \cup LargeChunkWords]] :
               \A k \in 1..n : decl[k].words \in ChunkWords(k)} : n \in 0..MaxChunks}

InitFX3 ==
    /\ engine = "fx3"
    /\ pc = "idle"
    /\ exc = NoExc
    /\ wire = <<>>
    /\ progress = <<>>
    /\ callback \in BOOLEAN
    /\ \E decl \in ChunkDecls, trailing \in TrailingLens, cut \in 0..MaxCut, ok \in BOOLEAN :
          /\ cut > 0 => trailing = 0
          /\ ~ok => (cut = 0 /\ trailing = 0)
          /\ arg = [decl |-> decl, trailing |-> trailing, cut |-> cut, magic_ok |-> ok]
    /\ image = EncodeImage(arg)
    /\ IdleDfu
    /\ IdleConnect
    /\ IdleFx3
    /\ IdleMn
    /\ fn = "none"
    /\ res = None

\* size_to_program(program_data) on the raw image.
Fx3SizeToProgram ==
    /\ engine = "fx3"
    /\ pc = "idle"
    /\ size_result = None
    /\ LET parsed == ParseProgramData(image)
       IN  IF parsed.exc # NoExc
           THEN pc' = "raised" /\ exc' = parsed.exc /\ UNCHANGED size_result
           ELSE /\ size_result' = Some(SumChunkSizes(parsed.chunks))
                /\ UNCHANGED <<pc, exc>>
    /\ UNCHANGED <<engine, wire, progress, image, callback>>
    /\ UNCHANGED <<chunks, chunk_index, to_upload, address, last_address, size_written,
                   total_size>>
    /\ UNCHANGED <<dfuVars, connectVars, fnVars, mnVars>>

\* program(program_data, status_callback): parse the image, compute the total size.
Fx3Program ==
    /\ engine = "fx3"
    /\ pc = "idle"
    /\ LET parsed == ParseProgramData(image)
       IN  IF parsed.exc # NoExc
           THEN /\ pc' = "raised"
                /\ exc' = parsed.exc
                /\ UNCHANGED <<chunks, total_size, chunk_index>>
           ELSE /\ chunks' = parsed.chunks
                /\ total_size' = SumChunkSizes(parsed.chunks)
                /\ chunk_index' = 1
                /\ pc' = IF parsed.chunks = <<>> THEN "done" ELSE "chunk"
                /\ UNCHANGED exc
    /\ size_written' = 0
    /\ UNCHANGED <<engine, wire, progress, image, callback>>
    /\ UNCHANGED <<to_upload, address, last_address, size_result>>
    /\ UNCHANGED <<dfuVars, connectVars, fnVars, mnVars>>

\* One iteration of the loop over the chunks, up to the loop of _upload_firmware.
Fx3BeginChunk ==
    /\ engine = "fx3"
    /\ pc = "chunk"
    /\ last_address' = Some(chunks[chunk_index].address)
    /\ address' = chunks[chunk_index].address
    /\ to_upload' = chunks[chunk_index].data
    /\ pc' = IF to_upload' # <<>> THEN "upload" ELSE "callback"
    /\ UNCHANGED <<engine, exc, wire, progress, image, callback>>
    /\ UNCHANGED <<chunks, chunk_index, size_written, total_size, size_result>>
    /\ UNCHANGED <<dfuVars, connectVars, fnVars, mnVars>>

\* One iteration of the loop of _upload_firmware: one write request.
Fx3UploadChunk ==
    /\ engine = "fx3"
    /\ pc = "upload"
    /\ LET chunk == Slice(to_upload, 0, USB_REQUEST_MAX_SIZE)
           rest  == Slice(to_upload, USB_REQUEST_MAX_SIZE, Len(to_upload))
       IN  \E ok \in BOOLEAN :
              /\ wire' = Append(wire, FirmwareRequest(address, chunk, ok))
              /\ IF ok
                 THEN /\ to_upload' = rest
                      /\ address' = NextUploadAddress(address, chunk)
                      /\ pc' = IF rest # <<>> THEN "upload" ELSE "callback"
                      /\ UNCHANGED exc
                 ELSE /\ pc' = "raised"
                      /\ exc' = Raise("USBError")
                      /\ UNCHANGED <<to_upload, address>>
    /\ UNCHANGED <<engine, progress, image, callback>>
    /\ UNCHANGED <<chunks, chunk_index, last_address, size_written, total_size, size_result>>
    /\ UNCHANGED <<dfuVars, connectVars, fnVars, mnVars>>

\* size_written += len(data); status_callback(size_written, total_size); next chunk.
Fx3StatusCallback ==
    /\ engine = "fx3"
    /\ pc = "callback"
    /\ size_written' = size_written + Len(chunks[chunk_index].data)
    /\ IF callback
       THEN /\ progress' = Append(progress, <<size_written', total_size>>)
            /\ chunk_index' = chunk_index + 1
            /\ pc' = IF chunk_index' <= Len(chunks) THEN "chunk" ELSE "done"
            /\ UNCHANGED exc
       ELSE \* status_callback is None: calling it raises TypeError
            /\ pc' = "raised"
            /\ exc' = Raise("TypeError")
            /\ UNCHANGED <<progress, chunk_index>>
    /\ UNCHANGED <<engine, wire, image, callback>>
    /\ UNCHANGED <<chunks, to_upload, address, last_address, total_size, size_result>>
    /\ UNCHANGED <<dfuVars, connectVars, fnVars, mnVars>>

\* run_user_program(): _upload_firmware_chunk(self.last_address, b"")
Fx3RunUserProgram ==
    /\ engine = "fx3"
    /\ pc = "done"
    /\ IF last_address = None
       THEN pc' = "raised" /\ exc' = Raise("AttributeError") /\ UNCHANGED wire
       ELSE \E ok \in BOOLEAN :
               /\ wire' = Append(wire, FirmwareRequest(last_address[1], <<>>, ok))
               /\ IF ok
                  THEN pc' = "ran" /\ UNCHANGED exc
                  ELSE pc' = "raised" /\ exc' = Raise("USBError")
    /\ UNCHANGED <<engine, progress, image, callback>>
    /\ UNCHANGED <<fx3Vars, dfuVars, connectVars, fnVars, mnVars>>

NextFX3 ==
    \/ Fx3SizeToProgram
    \/ Fx3Program
    \/ Fx3BeginChunk
    \/ Fx3UploadChunk
    \/ Fx3StatusCallback
    \/ Fx3RunUserProgram

SpecFX3 == InitFX3 /\ [][NextFX3]_vars

-----------------------------------------------------------------------------
(* Claims about the FX3 decoder and FX3Target.program() *)

\* The map a list of declared chunks stands for: address -> data bytes, in the order
\* declared.
DeclaredChunks(decl) ==
    [k \in 1..Len(decl) |-> [address |-> decl[k].address, data |-> ChunkData(k, decl[k].words)]]

RECURSIVE DeclaredBytes(_, _)
DeclaredBytes(decl, k) ==
    IF k > Len(decl) THEN 0 ELSE 4 * decl[k].words + DeclaredBytes(decl, k + 1)

\* "CY", two reserved bytes, complete chunks with distinct addresses, and fewer than 8
\* trailing bytes.
WellFormedFx3(a) ==
    /\ a.magic_ok
    /\ a.cut = 0
    /\ a.trailing < 8
    /\ \A i, j \in 1..Len(a.decl) : a.decl[i].address = a.decl[j].address => i = j

\* C8: for every such image, decoding yields exactly the declared map in declaration
\* order, the trailing bytes are ignored, and size_to_program(image) is the sum of the
\* byte lengths of the chunks.
C8_DecodeYieldsDeclaredChunks ==
    (engine = "fx3" /\ WellFormedFx3(arg))
       => /\ exc.type \notin {"ValueError", "EOFError"}
          /\ pc # "idle" =>
                /\ chunks = DeclaredChunks(arg.decl)
                /\ total_size = DeclaredBytes(arg.decl, 1)
          /\ size_result # None => size_result = Some(DeclaredBytes(arg.decl, 1))

\* Two chunks, the last one empty, and trailing bytes: decoded, sized and streamed.
C8_Witness ==
    /\ engine = "fx3"
    /\ WellFormedFx3(arg)
    /\ Len(arg.decl) = 2
    /\ arg.decl[1].words = 1
    /\ arg.decl[2].words = 0
    /\ arg.trailing = 7
    /\ pc = "ran"
    /\ Len(chunks) = 2
    /\ size_result = Some(4)

\* The image ends inside the data of its last declared chunk.
TruncatedFx3(a) ==
    /\ a.magic_ok
    /\ Len(a.decl) > 0
    /\ a.cut > 0
    /\ a.cut <= 4 * a.decl[Len(a.decl)].words

\* C9: when fewer than size_words * 4 bytes follow a chunk header, program() fails with
\* the truncation error and no write request has been sent to the device, the complete
\* chunks before it included.
C9_TruncationSendsNothing ==
    engine = "fx3"
       => /\ exc.type = "EOFError" => (pc = "raised" /\ wire = <<>> /\ progress = <<>>)
          /\ (TruncatedFx3(arg) /\ pc # "idle") => exc.type = "EOFError"

\* program() raised the truncation error on an image whose first chunk was complete.
C9_Witness ==
    /\ engine = "fx3"
    /\ Len(arg.decl) = 2
    /\ arg.decl[1].words = 1
    /\ arg.cut = 1
    /\ size_result = None
    /\ pc = "raised"
    /\ exc.type = "EOFError"
    /\ wire = <<>>

\* C10: program(image) called without a progress callback does not raise on account of
\* the missing callback: it raises only for a malformed image or a failed transfer.
C10_CallbackIsOptional ==
    (engine = "fx3" /\ ~callback /\ pc = "raised")
       => exc.type \in {"ValueError", "EOFError", "USBError", "AttributeError"}

\* The write requests C30 describes for one chunk: ceil(n/2048) of them, the i-th at
\* the chunk's address plus the bytes already sent, none for an empty chunk.
C30_RequestsOf(chunk) ==
    LET n == Len(chunk.data)
    IN  [i \in 1..((n + 2047) \div 2048) |->
            [address |-> chunk.address + 2048 * (i - 1),
             data    |-> SubSeq(chunk.data, 2048 * (i - 1) + 1, Min(2048 * i, n))]]

RECURSIVE C30_RequestsOfAll(_)
C30_RequestsOfAll(map) ==
    IF map = <<>> THEN <<>> ELSE C30_RequestsOf(Head(map)) \o C30_RequestsOfAll(Tail(map))

\* The write requests on the wire, as [address, data].
WireWrites == [k \in 1..Len(wire) |->
                  [address |-> wire[k].value + 65536 * wire[k].index, data |-> wire[k].data]]

\* C30: the write requests of program() are, in order, those of the chunks in map
\* order, each chunk split into requests of at most 2048 bytes at ascending addresses;
\* an empty chunk sends nothing; once program() has returned all of them are out.
C30_ChunksStreamedInOrder ==
    (engine = "fx3" /\ pc \in {"chunk", "upload", "callback", "done"})
       => LET expected == C30_RequestsOfAll(chunks)
          IN  /\ IsPrefix(WireWrites, expected)
              /\ \A k \in 1..Len(wire) :
                    Len(wire[k].data) \in 1..2048 /\ wire[k].request = VENDOR_REQUEST_UPLOAD
              /\ pc = "done" => WireWrites = expected

\* A program() that returned after streaming a chunk of three requests and then an
\* empty chunk.
C30_Witness ==
    /\ engine = "fx3"
    /\ pc = "done"
    /\ Len(chunks) = 2
    /\ Len(chunks[1].data) > 2 * USB_REQUEST_MAX_SIZE
    /\ chunks[2].data = <<>>
    /\ Len(wire) = 3
    /\ wire[3].value = (chunks[1].address + 2 * USB_REQUEST_MAX_SIZE) % 65536
    /\ Len(wire[3].data) = 4

\* The last chunk of the declared list at the address of the k-th.
LastDeclaredAt(decl, k) ==
    CHOOSE j \in k..Len(decl) :
        /\ decl[j].address = decl[k].address
        /\ \A l \in (j + 1)..Len(decl) : decl[l].address # decl[k].address

\* The map C31 describes: one entry per declared address, holding the bytes of the
\* last chunk declared at it, the addresses in the order they first appear.
RECURSIVE C31_MergedChunks(_, _)
C31_MergedChunks(decl, k) ==
    IF k > Len(decl) THEN <<>>
    ELSE IF \E j \in 1..(k - 1) : decl[j].address = decl[k].address
    THEN C31_MergedChunks(decl, k + 1)
    ELSE LET j == LastDeclaredAt(decl, k)
         IN  <<[address |-> decl[k].address, data |-> ChunkData(j, decl[j].words)]>>
             \o C31_MergedChunks(decl, k + 1)

\* A complete image in which two chunks declare the same address.
DuplicateFx3(a) ==
    /\ a.magic_ok
    /\ a.cut = 0
    /\ \E i, j \in 1..Len(a.decl) : i < j /\ a.decl[i].address = a.decl[j].address

\* C31: for an image with two chunks at one address, the decoded map has one entry per
\* address holding the later chunk's bytes, size_to_program and total_size count those
\* bytes only, and the write requests of program() are those of that map: the earlier
\* chunk's bytes are never sent.
C31_LaterDuplicateWins ==
    (engine = "fx3" /\ DuplicateFx3(arg))
       => LET merged == C31_MergedChunks(arg.decl, 1)
          IN  /\ size_result # None => size_result = Some(SumChunkSizes(merged))
              /\ pc \notin {"idle", "raised"}
                    => (chunks = merged /\ total_size = SumChunkSizes(merged))
              /\ pc \in {"chunk", "upload", "callback", "done"}
                    => IsPrefix(WireWrites, C30_RequestsOfAll(merged))
              /\ pc = "done" => WireWrites = C30_RequestsOfAll(merged)

\* Two chunks of four bytes at one address: program() returned having sent the second.
C31_Witness ==
    /\ engine = "fx3"
    /\ DuplicateFx3(arg)
    /\ Len(arg.decl) = 2
    /\ arg.decl[1].words = 1
    /\ arg.decl[2].words = 1
    /\ pc = "done"
    /\ size_result = Some(4)
    /\ Len(wire) = 1
    /\ wire[1].data = ChunkData(2, 1)
    /\ wire[1].data # ChunkData(1, 1)

\* C32: run_user_program() after a program() that returned sends one write request,
\* with an empty payload, at the address of the last chunk of the map, and nothing else.
C32_RunSendsOneEmptyWriteAtLastChunk ==
    [][(engine = "fx3" /\ pc = "done" /\ pc' # "done")
          => /\ chunks # <<>>
             /\ Len(wire') = Len(wire) + 1
             /\ SubSeq(wire', 1, Len(wire)) = wire
             /\ wire'[Len(wire')].request = VENDOR_REQUEST_UPLOAD
             /\ wire'[Len(wire')].data = <<>>
             /\ wire'[Len(wire')].value + 65536 * wire'[Len(wire')].index
                   = chunks[Len(chunks)].address]_vars

\* The payload bytes on the wire.
RECURSIVE PayloadBytes(_)
PayloadBytes(w) == IF w = <<>> THEN 0 ELSE Len(Head(w).data) + PayloadBytes(Tail(w))

\* program() has ended and no transfer of it failed.
Fx3ProgramEnded ==
    /\ engine = "fx3"
    /\ pc \in {"done", "ran", "raised"}
    /\ \A k \in 1..Len(wire) : wire[k].ok

\* C36: when program() on a well-formed image has ended with no transfer failed, the
\* payload bytes sent add up to size_to_program(image), the reported counts never
\* decrease, and the last report, if there is one, is (total, total).
C36_SentBytesEqualSizeToProgram ==
    (Fx3ProgramEnded /\ WellFormedFx3(arg))
       => /\ PayloadBytes(wire) = DeclaredBytes(arg.decl, 1)
          /\ size_result # None => size_result = Some(PayloadBytes(wire))
          /\ \A k \in 1..(Len(progress) - 1) : progress[k][1] <= progress[k + 1][1]
          /\ progress # <<>>
                => progress[Len(progress)] = <<total_size, total_size>>

=============================================================================
